---- MODULE Spec2Model ----
(***************************************************************************)
(* Model of the actionable tools of the MIDL MCP server                    *)
(* (tools/actionable.ts, registerActionableTools).                         *)
(*                                                                         *)
(* Every tool handler is an async function.  An invocation runs from one   *)
(* `await` to the next without interruption, so each action below is one   *)
(* such segment: the start of a handler up to its first await, or the      *)
(* resumption after an awaited call settles (resolves or rejects) up to    *)
(* the next await or the return.  Several invocations may be in flight at  *)
(* once and interleave at their awaits.                                    *)
(*                                                                         *)
(* The collaborators (@midl/core, @midl/executor, viem, the MCP client)    *)
(* are the environment: every awaited call may resolve with any value of   *)
(* a small domain, or reject.                                              *)
(***************************************************************************)
EXTENDS Integers, Sequences, FiniteSets, TLC

\* Number of tool invocations in a behaviour (they may overlap).
MaxInvocations == 2

Invocations == 1..MaxInvocations

-----------------------------------------------------------------------------
(* Tools *)

RequestPsbtSignature == "request-psbt-signature"
RequestTransactionBroadcast == "request-transaction-broadcast"
BroadcastTransactionTool == "broadcast-transaction"
CallContract == "call-contract"
DeployContractSource == "deploy-contract-source"
EstimateBtcTransferFee == "estimate-btc-transfer-fee"
GetWalletBalance == "get-wallet-balance"
PrepareBtcTransfer == "prepare-btc-transfer"
DecodePsbt == "decode-psbt"

GatedTools == {RequestPsbtSignature, RequestTransactionBroadcast}
PipelineTools == {CallContract, DeployContractSource}
AnalyticalTools == {EstimateBtcTransferFee, GetWalletBalance}
PsbtTools == {PrepareBtcTransfer, DecodePsbt}
Tools ==
    GatedTools \cup {BroadcastTransactionTool} \cup PipelineTools \cup AnalyticalTools
        \cup PsbtTools

-----------------------------------------------------------------------------
(* JavaScript values of a field of the elicitation response, and their     *)
(* truthiness (ToBoolean), which is what `!x` tests.                       *)

JSValues == {"undefined", "true", "false", "'yes'", "1", "0"}

Falsy == {"undefined", "null", "false", "''", "0", "NaN"}

ToBoolean(v) == v \notin Falsy

\* What `await extra.sendRequest(...)` may resolve to: nothing (null or
\* undefined), or an object whose fields `approved` and `confirm` hold any
\* JavaScript value ("undefined": the field is absent).
NullResponse == [kind |-> "null", approved |-> "undefined", confirm |-> "undefined"]

ObjectResponses ==
    { [kind |-> "object", approved |-> a, confirm |-> c] :
        <<a, c>> \in { p \in JSValues \X JSValues : p[1] = "undefined" \/ p[2] = "undefined" } }

Responses == {NullResponse} \cup ObjectResponses

\* The local `confirmed` before the await has assigned it.
Unset == [kind |-> "unset", approved |-> "undefined", confirm |-> "undefined"]

-----------------------------------------------------------------------------
(* Bitcoin transactions.  Every invocation works on a transaction of its   *)
(* own: transaction n is the one invocation n builds or is handed.  The    *)
(* raw hex determines the id (its hash).                                   *)

\* The empty string of `|| ""`.
EmptyString == <<>>

TxId(n) == <<"txid", n>>
RawTx(n) == <<"raw", n>>

TxIdOf(hex) == IF hex = EmptyString THEN EmptyString ELSE TxId(hex[2])

\* The arguments of invocation i: the PSBT to sign, the raw transaction to
\* broadcast.
PsbtOf(i) == <<"psbt", i>>

\* The inputs of a PSBT that the signing account owns, by index: the PSBT
\* handed to invocation n has n inputs, all of them the account's.
OwnedInputs(psbt) == 0..(psbt[2] - 1)
TxHexOf(i) == RawTx(i)

\* The UTXOs of the connected account.
NumUtxos == 2
Utxos == 1..NumUtxos

\* A result of finalizeBTCTransaction without its `tx`; `utxo` is the UTXO
\* the transaction spends (0: none).
NoTx == [hasTx |-> FALSE, id |-> EmptyString, hex |-> EmptyString, utxo |-> 0]

NotFinalized == [hasTx |-> FALSE, id |-> <<"none">>, hex |-> <<"none">>, utxo |-> 0]

\* `btcTx.tx?.id || ""` and `btcTx.tx?.hex || ""`
BtcTxIdOf(r) == IF r.hasTx /\ r.id # EmptyString THEN r.id ELSE EmptyString
BtcTxHexOf(r) == IF r.hasTx /\ r.hex # EmptyString THEN r.hex ELSE EmptyString

\* signIntention binds the intention to the txId it is given.
NotSigned == [intention |-> 0, txId |-> <<"none">>]
SignedIntention(intention, txId) == [intention |-> intention, txId |-> txId]

\* keccak256 of the signed intention: the EVM transaction hash.
Keccak256(bytes) == <<"keccak256", bytes>>

\* getEVMAddress of the default account: the sender of every intention.
EvmAddress == <<"evmAddress", "defaultAccount">>

\* getContractAddress({from, nonce}): the address a deployment of `from` gets
\* when it consumes `nonce`.
GetContractAddress(from, nonce) == <<"contract", from, nonce>>

NoAddress == <<"none">>

\* A transaction receipt; the handlers read its blockNumber only.
NoReceipt == [status |-> "none"]
ReceiptStatuses == {"success", "reverted"}

\* Mutant: no options are given, and the client repeats a failed request three
\* times.
RequestOptions_ViemDefault == [retryCount |-> 3]

\* The options sendBTCTransactions gives client.request: a failed request is
\* repeated retryCount times.
RequestOptions == [retryCount |-> 0]

-----------------------------------------------------------------------------
(* Values of the analytical tools *)

\* A property of the object coinSelect returns: left out, or an array.
Undefined == [kind |-> "undefined"]
Array(items) == [kind |-> "array", items |-> items]

\* The locals of estimate-btc-transfer-fee before they are assigned.
NotSelected == [inputs |-> Undefined, outputs |-> Undefined, fee |-> 0]
NoArgs == [feeRate |-> 0, recipients |-> <<>>]

-----------------------------------------------------------------------------
(* Strings the code examines character by character, and the environment   *)
(* of the process.  A string is the sequence of its characters.            *)

Mainnet == <<"m", "a", "i", "n", "n", "e", "t">>
MainnetCapital == <<"M", "a", "i", "n", "n", "e", "t">>
Testnet == <<"t", "e", "s", "t", "n", "e", "t">>
Testnet4 == <<"t", "e", "s", "t", "n", "e", "t", "4">>
Regtest == <<"r", "e", "g", "t", "e", "s", "t">>
Bitcoin == <<"b", "i", "t", "c", "o", "i", "n">>

\* String.prototype.toLowerCase, on the letters that occur.
LowerCaseOf(c) ==
    CASE c = "M" -> "m"
      [] c = "T" -> "t"
      [] c = "R" -> "r"
      [] c = "E" -> "e"
      [] OTHER -> c

ToLowerCase(s) == [k \in DOMAIN s |-> LowerCaseOf(s[k])]

\* String.prototype.includes
Includes(s, sub) ==
    \E k \in 0..(Len(s) - Len(sub)) : SubSeq(s, k + 1, k + Len(sub)) = sub

\* A variable of process.env: not set, or set to a string.
NotSet == [set |-> FALSE, value |-> EmptyString]
IsSet(v) == [set |-> TRUE, value |-> v]

\* The truthiness of process.env.X: set, and not to the empty string.
Truthy(e) == e.set /\ e.value # EmptyString

\* `process.env.X || d`
OrElse(e, d) == IF Truthy(e) THEN e.value ELSE d

\* Strings the code only compares or passes on, as one-character strings.
Mnemonic == <<"mnemonic">>
Address == <<"tb1paddress">>
MnemonicAddress == <<"tb1pmnemonic">>
MockAddress == <<"tb1qtestaddress">>
PubKey == <<"pubkey">>
RecoveredPubKey == <<"witness">>
NotSetPlaceholder == <<"NOT_SET">>
Ellipsis == <<".", ".", ".">>

\* What createMidlConfigFromEnv returns in the demo mode.
Null == [kind |-> "null"]

NoEnv ==
    [MIDL_NETWORK |-> NotSet, MIDL_MNEMONIC |-> NotSet,
     MIDL_ACCOUNT_ADDRESS |-> NotSet, MIDL_ACCOUNT_PUBKEY |-> NotSet]

Envs ==
    [MIDL_NETWORK : {NotSet, IsSet(Mainnet), IsSet(MainnetCapital), IsSet(Regtest), IsSet(Testnet4)},
     MIDL_MNEMONIC : {NotSet, IsSet(EmptyString), IsSet(Mnemonic)},
     MIDL_ACCOUNT_ADDRESS : {NotSet, IsSet(EmptyString), IsSet(Address)},
     MIDL_ACCOUNT_PUBKEY : {NotSet, IsSet(NotSetPlaceholder), IsSet(PubKey)}]

-----------------------------------------------------------------------------
(* URIs of the bitcoin-balance resource and the text of a balance.  The    *)
(* host of midl://balance/{address} is "balance"; the pathname is what     *)
(* follows it, a string whose characters are "/" and the segments.         *)

Slash == "/"

Pathnames ==
    {<<>>,
     <<Slash>>,
     <<Slash, "tb1qtestaddress">>,
     <<Slash, "tb1qtestaddress", Slash>>,
     <<Slash, "x", Slash, "tb1pother">>}

\* `new URL(...)`: href and pathname
Uri(pathname) == [href |-> <<"midl://balance">> \o pathname, pathname |-> pathname]
Uris == {Uri(p) : p \in Pathnames}

\* String.prototype.split
RECURSIVE Split(_, _)
Split(s, sep) ==
    IF \A k \in DOMAIN s : s[k] # sep
    THEN <<s>>
    ELSE LET k == CHOOSE k \in DOMAIN s : s[k] = sep /\ \A j \in 1..(k - 1) : s[j] # sep
         IN <<SubSeq(s, 1, k - 1)>> \o Split(SubSeq(s, k + 1, Len(s)), sep)

\* Array.prototype.pop, on a non-empty array
Pop(a) == a[Len(a)]

\* `uri.pathname.split("/").pop()`
AddressOf(uri) == Pop(Split(uri.pathname, Slash))

DigitChars == <<"0", "1", "2", "3", "4", "5", "6", "7", "8", "9">>

\* The decimal digits of a natural number.
RECURSIVE Decimal(_)
Decimal(n) ==
    IF n < 10 THEN <<DigitChars[n + 1]>>
    ELSE Decimal(n \div 10) \o <<DigitChars[(n % 10) + 1]>>

\* String.prototype.padStart with "0"
RECURSIVE PadStart(_, _)
PadStart(s, width) == IF Len(s) >= width THEN s ELSE PadStart(<<"0">> \o s, width)

\* Mutant: two decimals.
SatoshisToBtc_TwoDecimals(satoshis) ==
    Decimal(satoshis \div 100000000) \o <<".">>
        \o PadStart(Decimal((satoshis % 100000000) \div 1000000), 2)

\* satoshisToBtc: `(satoshis / 100_000_000).toFixed(8)`, for the amounts that
\* exist (the quotient is within half a unit of the eighth decimal).
SatoshisToBtc(satoshis) ==
    Decimal(satoshis \div 100000000) \o <<".">> \o PadStart(Decimal(satoshis % 100000000), 8)

\* The group separators of the locales the process may run in.
GroupSeparators == {",", "."}

\* Number.prototype.toLocaleString of a natural number: groups of three.
RECURSIVE ToLocaleString(_, _)
ToLocaleString(n, separator) ==
    IF n < 1000 THEN Decimal(n)
    ELSE ToLocaleString(n \div 1000, separator) \o <<separator>> \o PadStart(Decimal(n % 1000), 3)

\* formatBalance
FormatBalance(satoshis, separator) ==
    SatoshisToBtc(satoshis) \o <<" BTC (">> \o ToLocaleString(satoshis, separator) \o <<" sats)">>

\* The balances the provider may report, in satoshis.
Balances == {0, 1000000, 1234567890}

\* A read that has not arrived.
NotRead ==
    [pc |-> "idle", uri |-> Uri(<<>>), address |-> EmptyString, calls |-> <<>>,
     contents |-> <<>>, error |-> ""]

-----------------------------------------------------------------------------
(* Solidity sources and their imports.  A path is a string, cut after the  *)
(* prefix the code looks at; a content is the sequence of the paths its    *)
(* import statements name, in the order the regular expression finds them. *)

ContractSol == <<"Contract.sol">>
OpenZeppelinPrefix == <<"@openzeppelin/">>
OpenZeppelinPaths ==
    {OpenZeppelinPrefix \o <<"contracts/A.sol">>, OpenZeppelinPrefix \o <<"contracts/B.sol">>}
RelativePaths == {<<"./", "C.sol">>}
ImportPaths == {ContractSol} \cup OpenZeppelinPaths \cup RelativePaths

\* The contents: no import, one import, or two imports of the library.
Contents ==
    {<<>>} \cup {<<p>> : p \in ImportPaths}
           \cup {<<p, q>> : p \in OpenZeppelinPaths, q \in OpenZeppelinPaths}

\* The responses of a fetch: not ok, or ok with the text of the file.
NotOk == [ok |-> FALSE, text |-> <<>>]
OkWith(content) == [ok |-> TRUE, text |-> content]

\* What the repository answers for each library path.
FileSystems == [OpenZeppelinPaths -> {NotOk} \cup {OkWith(c) : c \in Contents}]
NoFiles == [p \in OpenZeppelinPaths |-> NotOk]

\* String.prototype.startsWith
StartsWith(s, prefix) == Len(s) >= Len(prefix) /\ SubSeq(s, 1, Len(prefix)) = prefix

-----------------------------------------------------------------------------
(* Tool results *)

NoResult == [isError |-> FALSE, text |-> "none"]
Ok(text) == [isError |-> FALSE, text |-> text]
Err(text) == [isError |-> TRUE, text |-> text]

\* The text of the catch block of each handler, before the error's message.
CatchText(t) ==
    CASE t = RequestPsbtSignature -> "Error signing PSBT: "
      [] t = RequestTransactionBroadcast -> "Error broadcasting transaction: "
      [] t = BroadcastTransactionTool -> "Error broadcasting: "
      [] t = CallContract -> "Error calling contract: "
      [] t = DeployContractSource -> "Error in deploy-contract-source: "
      [] t = PrepareBtcTransfer -> "Error preparing transfer: "
      [] t = DecodePsbt -> "Error decoding PSBT: "

-----------------------------------------------------------------------------
VARIABLES
    tool,        \* tool[i]: the tool invocation i runs ("none": not started)
    pc,          \* pc[i]: "idle", the call the invocation awaits, "done" once
                 \* the handler returned, "rejected" once it threw
    extra,       \* extra[i]: whether extra.sendRequest exists
    confirmed,   \* confirmed[i]: the handler's local `confirmed`
    btcTx,       \* btcTx[i]: the handler's local `btcTx`
    signedEvmTx, \* signedEvmTx[i]: the handler's local `signedEvmTx`
    receiptInfo, \* receiptInfo[i]: the handler's local `receiptInfo`
    verificationInfo, \* verificationInfo[i]: the handler's local `verificationInfo`
    calls,       \* calls[i]: the calls to collaborators the invocation made
    result,      \* result[i]: what the handler returned
    predictedAddress, \* predictedAddress[i]: the handler's local `predictedAddress`
    receipt,     \* receipt[i]: the handler's local `receipt`
    accepted,    \* the invocations whose submission the network accepted, in order
    args,        \* args[i]: the arguments the handler reads after its first await
    currentFeeRate, \* currentFeeRate[i]: the handler's local `currentFeeRate`
    selected,    \* selected[i]: the handler's local `selected`
    env,         \* process.env, as main finds it
    main,        \* where main() stands
    publicKey,   \* the local `publicKey` of createMidlConfigFromEnv
    midlConfig,  \* the local `midlConfig` of main
    midlWrapper, \* the configuration the MidlConfigWrapper holds, once one exists
    registered,  \* whether the server registered its resources, tools and prompts
    transport,   \* "none", or "connected" once server.connect(transport) resolved
    process,     \* "running", or "exit(1)"
    connectorCalls, \* the calls the ServerConnector served, with what they gave
    reads,       \* reads[i]: read i of the bitcoin-balance resource: its uri, where
                 \* the handler stands, its local `address`, its calls, its outcome
    resolver,    \* the tool whose import resolution is followed ("none" before)
    files,       \* what the OpenZeppelin repository serves, by import path
    sources,     \* the handler's `sources`: the content by path
    stack,       \* the active calls of resolveImports: content and position
    fetched,     \* the fetches made: the path, and whether `sources` held it
    descended    \* the paths whose content resolveImports was called on

\* What only the anchoring pipeline writes, and what only the analytical
\* tools write.
deployVars == <<predictedAddress, receipt, accepted>>
analyticalVars == <<args, currentFeeRate, selected>>

\* What no tool handler writes: the start-up of the process and its connector.
startVars == <<env, main, publicKey, midlConfig, midlWrapper, registered, transport, process>>
importVars == <<resolver, files, sources, stack, fetched, descended>>
hostVars == <<startVars, connectorCalls, reads, importVars>>

\* What the start-up of the process leaves alone: the tool invocations.
toolVars == <<tool, pc, extra, confirmed, btcTx, signedEvmTx, receiptInfo, verificationInfo,
              calls, result, deployVars, analyticalVars>>

vars == <<toolVars, hostVars>>

Init ==
    /\ tool = [i \in Invocations |-> "none"]
    /\ pc = [i \in Invocations |-> "idle"]
    /\ extra = [i \in Invocations |-> FALSE]
    /\ confirmed = [i \in Invocations |-> Unset]
    /\ btcTx = [i \in Invocations |-> NotFinalized]
    /\ signedEvmTx = [i \in Invocations |-> NotSigned]
    /\ receiptInfo = [i \in Invocations |-> ""]
    /\ verificationInfo = [i \in Invocations |-> ""]
    /\ calls = [i \in Invocations |-> <<>>]
    /\ result = [i \in Invocations |-> NoResult]
    /\ predictedAddress = [i \in Invocations |-> NoAddress]
    /\ receipt = [i \in Invocations |-> NoReceipt]
    /\ accepted = <<>>
    /\ args = [i \in Invocations |-> NoArgs]
    /\ currentFeeRate = [i \in Invocations |-> 0]
    /\ selected = [i \in Invocations |-> NotSelected]
    /\ env = NoEnv
    /\ main = "start"
    /\ publicKey = EmptyString
    /\ midlConfig = Undefined
    /\ midlWrapper = Undefined
    /\ registered = FALSE
    /\ transport = "none"
    /\ process = "running"
    /\ connectorCalls = <<>>
    /\ reads = [i \in Invocations |-> NotRead]
    /\ resolver = "none"
    /\ files = NoFiles
    /\ sources = <<>>
    /\ stack = <<>>
    /\ fetched = <<>>
    /\ descended = <<>>

-----------------------------------------------------------------------------
(* Helpers on the call log *)

Call(op, arg) == [op |-> op, arg |-> arg, status |-> "pending"]

\* The awaited (last) call settles.
Settle(log, status) == [log EXCEPT ![Len(log)].status = status]

\* The awaited call resolves to `ret`.
Resolve(log, ret) ==
    [log EXCEPT ![Len(log)] = [op |-> @.op, arg |-> @.arg, status |-> "ok", ret |-> ret]]

\* Invocations are numbered in the order they arrive.
CanStart(i) ==
    /\ pc[i] = "idle"
    /\ \A j \in Invocations : j < i => pc[j] # "idle"

Return(i, r) ==
    /\ pc' = [pc EXCEPT ![i] = "done"]
    /\ result' = [result EXCEPT ![i] = r]

\* The catch block of tool t.
ThrowIn(i, t) == Return(i, Err(CatchText(t)))
Throw(i) == ThrowIn(i, tool[i])

-----------------------------------------------------------------------------
(* The chain, as the providers show it.  Every intention is sent by the    *)
(* default account: the network gives the accepted ones its nonces in the  *)
(* order it accepts them, and a transaction that spends a spent UTXO is    *)
(* not accepted.                                                           *)

\* What getTransactionCount({address: evmAddress}) resolves to.
TransactionCount == Len(accepted)

\* The nonce the accepted submission of invocation i consumed.
ConsumedNonce(i) == (CHOOSE k \in DOMAIN accepted : accepted[k] = i) - 1

IsAccepted(i) == \E k \in DOMAIN accepted : accepted[k] = i

Spent == {btcTx[accepted[k]].utxo : k \in DOMAIN accepted} \ {0}
Unspent == Utxos \ Spent

\* What finalizeBTCTransaction may resolve to in invocation i: a result with
\* its `tx`, funded by the first UTXO unspent at that moment, or a result
\* without one.
FinalizeResults(i) ==
    {NoTx} \cup
    {[hasTx |-> TRUE, id |-> TxId(i), hex |-> RawTx(i), utxo |-> u] :
        u \in {v \in Unspent : \A w \in Unspent : v <= w}}

-----------------------------------------------------------------------------
(* request-psbt-signature *)

\* Mutant: the `approved` field is not looked at.
SignatureDeclined_NullOnly(c) == c.kind # "object"

\* `!confirmed || !confirmed.approved`
SignatureDeclined(c) == c.kind # "object" \/ ~ToBoolean(c.approved)

\* Mutant: without an elicitation channel the handler signs anyway.
StartRequestPsbtSignature_FailOpen(i) ==
    /\ CanStart(i)
    /\ tool' = [tool EXCEPT ![i] = RequestPsbtSignature]
    /\ \E sendRequest \in BOOLEAN :
        /\ extra' = [extra EXCEPT ![i] = sendRequest]
        /\ IF sendRequest
           THEN /\ calls' = [calls EXCEPT ![i] =
                       Append(@, Call("elicitation/create", [required |-> "approved"]))]
                /\ pc' = [pc EXCEPT ![i] = "elicitation/create"]
           ELSE /\ calls' = [calls EXCEPT ![i] =
                       Append(@, Call("signPSBT", [psbt |-> PsbtOf(i), signInputs |-> {0}]))]
                /\ pc' = [pc EXCEPT ![i] = "signPSBT"]
    /\ UNCHANGED <<confirmed, btcTx, signedEvmTx, receiptInfo, verificationInfo, deployVars, analyticalVars, hostVars, result>>

\* From the start of the handler to `await extra.sendRequest(...)`, or to the
\* return of the else branch when the client offers no elicitation.
StartRequestPsbtSignature(i) ==
    /\ CanStart(i)
    /\ tool' = [tool EXCEPT ![i] = RequestPsbtSignature]
    /\ \E sendRequest \in BOOLEAN :
        /\ extra' = [extra EXCEPT ![i] = sendRequest]
        /\ IF sendRequest
           THEN /\ calls' = [calls EXCEPT ![i] =
                       Append(@, Call("elicitation/create", [required |-> "approved"]))]
                /\ pc' = [pc EXCEPT ![i] = "elicitation/create"]
                /\ UNCHANGED result
           ELSE /\ Return(i, Err("Error: Human elicitation required for signing but not supported by client."))
                /\ UNCHANGED calls
    /\ UNCHANGED <<confirmed, btcTx, signedEvmTx, receiptInfo, verificationInfo, deployVars, analyticalVars, hostVars>>

\* The elicitation resolves: the decline check, the account lookup and the
\* call of signPSBT.
SignElicitationResolves(i) ==
    /\ tool[i] = RequestPsbtSignature
    /\ pc[i] = "elicitation/create"
    /\ \E r \in Responses :
        /\ confirmed' = [confirmed EXCEPT ![i] = r]
        /\ IF SignatureDeclined(r)
           THEN /\ Return(i, Err("Signature request declined by user."))
                /\ calls' = [calls EXCEPT ![i] = Settle(@, "ok")]
           ELSE \E account \in BOOLEAN :
                  IF account
                  THEN /\ calls' = [calls EXCEPT ![i] =
                              Append(Settle(@, "ok"),
                                     Call("signPSBT", [psbt |-> PsbtOf(i), signInputs |-> {0}]))]
                       /\ pc' = [pc EXCEPT ![i] = "signPSBT"]
                       /\ UNCHANGED result
                  ELSE \* throw new Error("No account found for signing.")
                       /\ Throw(i)
                       /\ calls' = [calls EXCEPT ![i] = Settle(@, "ok")]
    /\ UNCHANGED <<tool, extra, btcTx, signedEvmTx, receiptInfo, verificationInfo, deployVars, analyticalVars, hostVars>>

\* Mutant: a rejected elicitation is swallowed and the handler signs.
SignElicitationRejects_Proceeds(i) ==
    /\ tool[i] = RequestPsbtSignature
    /\ pc[i] = "elicitation/create"
    /\ calls' = [calls EXCEPT ![i] =
           Append(Settle(@, "failed"), Call("signPSBT", [psbt |-> PsbtOf(i), signInputs |-> {0}]))]
    /\ pc' = [pc EXCEPT ![i] = "signPSBT"]
    /\ UNCHANGED <<tool, extra, confirmed, btcTx, signedEvmTx, receiptInfo, verificationInfo, deployVars, analyticalVars, hostVars, result>>

\* The elicitation rejects (the request times out, is cancelled or fails):
\* the catch block.
SignElicitationRejects(i) ==
    /\ tool[i] = RequestPsbtSignature
    /\ pc[i] = "elicitation/create"
    /\ Throw(i)
    /\ calls' = [calls EXCEPT ![i] = Settle(@, "failed")]
    /\ UNCHANGED <<tool, extra, confirmed, btcTx, signedEvmTx, receiptInfo, verificationInfo, deployVars, analyticalVars, hostVars>>

SignPSBTSettles(i) ==
    /\ tool[i] = RequestPsbtSignature
    /\ pc[i] = "signPSBT"
    /\ \/ /\ Return(i, Ok("PSBT signed successfully."))
          /\ calls' = [calls EXCEPT ![i] = Settle(@, "ok")]
       \/ /\ Throw(i)
          /\ calls' = [calls EXCEPT ![i] = Settle(@, "failed")]
    /\ UNCHANGED <<tool, extra, confirmed, btcTx, signedEvmTx, receiptInfo, verificationInfo, deployVars, analyticalVars, hostVars>>

-----------------------------------------------------------------------------
(* request-transaction-broadcast *)

\* Mutant: the check is copied from request-psbt-signature and tests `approved`.
BroadcastDeclined_WrongField(c) == c.kind # "object" \/ ~ToBoolean(c.approved)

\* `!confirmed || !confirmed.confirm`
BroadcastDeclined(c) == c.kind # "object" \/ ~ToBoolean(c.confirm)

\* Mutant: an approval some other invocation obtained is remembered, and the
\* handler then broadcasts without asking.
StartRequestTransactionBroadcast_CachedApproval(i) ==
    /\ CanStart(i)
    /\ tool' = [tool EXCEPT ![i] = RequestTransactionBroadcast]
    /\ \E sendRequest \in BOOLEAN :
        /\ extra' = [extra EXCEPT ![i] = sendRequest]
        /\ IF \E j \in Invocations : confirmed[j].kind = "object" /\
                  (ToBoolean(confirmed[j].approved) \/ ToBoolean(confirmed[j].confirm))
           THEN /\ calls' = [calls EXCEPT ![i] =
                       Append(@, Call("broadcastTransaction", [txHex |-> TxHexOf(i)]))]
                /\ pc' = [pc EXCEPT ![i] = "broadcastTransaction"]
                /\ UNCHANGED result
           ELSE IF sendRequest
           THEN /\ calls' = [calls EXCEPT ![i] =
                       Append(@, Call("elicitation/create", [required |-> "confirm"]))]
                /\ pc' = [pc EXCEPT ![i] = "elicitation/create"]
                /\ UNCHANGED result
           ELSE /\ Return(i, Err("Error: Human elicitation required for broadcasting but not supported by client."))
                /\ UNCHANGED calls
    /\ UNCHANGED <<confirmed, btcTx, signedEvmTx, receiptInfo, verificationInfo, deployVars, analyticalVars, hostVars>>

StartRequestTransactionBroadcast(i) ==
    /\ CanStart(i)
    /\ tool' = [tool EXCEPT ![i] = RequestTransactionBroadcast]
    /\ \E sendRequest \in BOOLEAN :
        /\ extra' = [extra EXCEPT ![i] = sendRequest]
        /\ IF sendRequest
           THEN /\ calls' = [calls EXCEPT ![i] =
                       Append(@, Call("elicitation/create", [required |-> "confirm"]))]
                /\ pc' = [pc EXCEPT ![i] = "elicitation/create"]
                /\ UNCHANGED result
           ELSE /\ Return(i, Err("Error: Human elicitation required for broadcasting but not supported by client."))
                /\ UNCHANGED calls
    /\ UNCHANGED <<confirmed, btcTx, signedEvmTx, receiptInfo, verificationInfo, deployVars, analyticalVars, hostVars>>

BroadcastElicitationResolves(i) ==
    /\ tool[i] = RequestTransactionBroadcast
    /\ pc[i] = "elicitation/create"
    /\ \E r \in Responses :
        /\ confirmed' = [confirmed EXCEPT ![i] = r]
        /\ IF BroadcastDeclined(r)
           THEN /\ Return(i, Err("Broadcast cancelled by user."))
                /\ calls' = [calls EXCEPT ![i] = Settle(@, "ok")]
           ELSE /\ calls' = [calls EXCEPT ![i] =
                       Append(Settle(@, "ok"), Call("broadcastTransaction", [txHex |-> TxHexOf(i)]))]
                /\ pc' = [pc EXCEPT ![i] = "broadcastTransaction"]
                /\ UNCHANGED result
    /\ UNCHANGED <<tool, extra, btcTx, signedEvmTx, receiptInfo, verificationInfo, deployVars, analyticalVars, hostVars>>

BroadcastElicitationRejects(i) ==
    /\ tool[i] = RequestTransactionBroadcast
    /\ pc[i] = "elicitation/create"
    /\ Throw(i)
    /\ calls' = [calls EXCEPT ![i] = Settle(@, "failed")]
    /\ UNCHANGED <<tool, extra, confirmed, btcTx, signedEvmTx, receiptInfo, verificationInfo, deployVars, analyticalVars, hostVars>>

RequestedBroadcastSettles(i) ==
    /\ tool[i] = RequestTransactionBroadcast
    /\ pc[i] = "broadcastTransaction"
    /\ \/ /\ Return(i, Ok("Transaction broadcasted successfully!"))
          /\ calls' = [calls EXCEPT ![i] = Settle(@, "ok")]
       \/ /\ Throw(i)
          /\ calls' = [calls EXCEPT ![i] = Settle(@, "failed")]
    /\ UNCHANGED <<tool, extra, confirmed, btcTx, signedEvmTx, receiptInfo, verificationInfo, deployVars, analyticalVars, hostVars>>

-----------------------------------------------------------------------------
(* broadcast-transaction *)

StartBroadcastTransaction(i) ==
    /\ CanStart(i)
    /\ tool' = [tool EXCEPT ![i] = BroadcastTransactionTool]
    /\ calls' = [calls EXCEPT ![i] = Append(@, Call("broadcastTransaction", [txHex |-> TxHexOf(i)]))]
    /\ pc' = [pc EXCEPT ![i] = "broadcastTransaction"]
    /\ UNCHANGED <<extra, confirmed, btcTx, signedEvmTx, receiptInfo, verificationInfo, deployVars, analyticalVars, hostVars, result>>

BroadcastTransactionSettles(i) ==
    /\ tool[i] = BroadcastTransactionTool
    /\ pc[i] = "broadcastTransaction"
    /\ \/ /\ Return(i, Ok("Transaction broadcasted successfully!"))
          /\ calls' = [calls EXCEPT ![i] = Settle(@, "ok")]
       \/ /\ Throw(i)
          /\ calls' = [calls EXCEPT ![i] = Settle(@, "failed")]
    /\ UNCHANGED <<tool, extra, confirmed, btcTx, signedEvmTx, receiptInfo, verificationInfo, deployVars, analyticalVars, hostVars>>

-----------------------------------------------------------------------------
(* call-contract and deploy-contract-source: the anchoring pipeline        *)
(* addTxIntention, finalizeBTCTransaction, signIntention,                  *)
(* eth_sendBTCTransactions, waitForTransactionReceipt.  Both handlers hold *)
(* the same code for it.                                                   *)

LastCall(i) == calls[i][Len(calls[i])]

\* call-contract, up to `await addTxIntention(...)`; encodeFunctionData
\* throws when the ABI has no such function or the arguments do not fit.
StartCallContract(i) ==
    /\ CanStart(i)
    /\ tool' = [tool EXCEPT ![i] = CallContract]
    /\ \/ /\ ThrowIn(i, CallContract)
          /\ UNCHANGED calls
       \/ /\ calls' = [calls EXCEPT ![i] = Append(@, Call("addTxIntention", [intention |-> i]))]
          /\ pc' = [pc EXCEPT ![i] = "addTxIntention"]
          /\ UNCHANGED result
    /\ UNCHANGED <<extra, confirmed, btcTx, signedEvmTx, receiptInfo, verificationInfo,
                   deployVars, analyticalVars, hostVars>>

\* deploy-contract-source, up to `await resolveImports(sourceCode)`.
StartDeployContractSource(i) ==
    /\ CanStart(i)
    /\ tool' = [tool EXCEPT ![i] = DeployContractSource]
    /\ calls' = [calls EXCEPT ![i] = Append(@, Call("resolveImports", [path |-> "Contract.sol"]))]
    /\ pc' = [pc EXCEPT ![i] = "resolveImports"]
    /\ UNCHANGED <<extra, confirmed, btcTx, signedEvmTx, receiptInfo, verificationInfo, result,
                   deployVars, analyticalVars, hostVars>>

\* The contract the invocation asks for (`contractName`).
ContractName == "Contract"

\* What solc.compile may come to: it throws (as encodeDeployData may), or it
\* gives an output with its diagnostics (`errors`, by severity; none when the
\* property is absent) and the names of the compiled contracts.
Throws == [throws |-> TRUE]
Output(errors, contracts) == [throws |-> FALSE, errors |-> errors, contracts |-> contracts]

CompileOutputs ==
    {Throws,
     Output(<<"warning", "error">>, {}),
     Output(<<>>, {"Other"}),
     Output(<<"warning">>, {ContractName})}

\* Mutant: every diagnostic stops the deployment.
HasErrors_AnySeverity(output) == Len(output.errors) > 0

\* `output.errors.filter(e => e.severity === 'error').length > 0`
HasErrors(output) == \E k \in DOMAIN output.errors : output.errors[k] = "error"

\* The loop over output.contracts finds `targetName`.
HasContract(output, targetName) == targetName \in output.contracts

\* solc.compile as a settled entry of the call log.
Compiled(output) ==
    [op |-> "solc.compile", arg |-> [sources |-> "Contract.sol"], status |-> "ok", ret |-> output]

\* The imports are resolved: compile, pick the contract, encode the
\* deployment data, up to `await publicClient.getTransactionCount(...)`.
ResolveImportsSettles(i) ==
    /\ tool[i] = DeployContractSource
    /\ pc[i] = "resolveImports"
    /\ \/ /\ Throw(i)
          /\ calls' = [calls EXCEPT ![i] = Settle(@, "failed")]
       \/ \E output \in CompileOutputs :
            IF output.throws
            THEN /\ Throw(i)
                 /\ calls' = [calls EXCEPT ![i] = Settle(@, "ok")]
            ELSE IF HasErrors(output)
            THEN /\ Return(i, Err("Compilation Error: "))
                 /\ calls' = [calls EXCEPT ![i] = Append(Settle(@, "ok"), Compiled(output))]
            ELSE IF ~HasContract(output, ContractName)
            THEN /\ Return(i, Err("Contract not found. Available: "))
                 /\ calls' = [calls EXCEPT ![i] = Append(Settle(@, "ok"), Compiled(output))]
            ELSE /\ calls' = [calls EXCEPT ![i] =
                        Append(Append(Settle(@, "ok"), Compiled(output)),
                               Call("getTransactionCount", [address |-> EvmAddress]))]
                 /\ pc' = [pc EXCEPT ![i] = "getTransactionCount"]
                 /\ UNCHANGED result
    /\ UNCHANGED <<tool, extra, confirmed, btcTx, signedEvmTx, receiptInfo, verificationInfo,
                   deployVars, analyticalVars, hostVars>>

\* Mutant: the sender is reserved between the read of the nonce and the
\* submission: the read waits while another deployment holds the nonce.
GetTransactionCountSettles_Reserved(i) ==
    /\ tool[i] = DeployContractSource
    /\ pc[i] = "getTransactionCount"
    /\ \A j \in Invocations \ {i} :
           ~(predictedAddress[j] # NoAddress /\ pc[j] # "done" /\ ~IsAccepted(j))
    /\ \/ /\ Throw(i)
          /\ calls' = [calls EXCEPT ![i] = Settle(@, "failed")]
          /\ UNCHANGED predictedAddress
       \/ /\ predictedAddress' = [predictedAddress EXCEPT ![i] =
                 GetContractAddress(EvmAddress, TransactionCount)]
          /\ calls' = [calls EXCEPT ![i] =
                 Append(Resolve(@, TransactionCount), Call("addTxIntention", [intention |-> i]))]
          /\ pc' = [pc EXCEPT ![i] = "addTxIntention"]
          /\ UNCHANGED result
    /\ UNCHANGED <<tool, extra, confirmed, btcTx, signedEvmTx, receiptInfo, verificationInfo,
                   receipt, accepted, analyticalVars, hostVars>>

\* The nonce is read: predict the address from it, up to `await
\* addTxIntention(...)`.
GetTransactionCountSettles(i) ==
    /\ tool[i] = DeployContractSource
    /\ pc[i] = "getTransactionCount"
    /\ \/ /\ Throw(i)
          /\ calls' = [calls EXCEPT ![i] = Settle(@, "failed")]
          /\ UNCHANGED predictedAddress
       \/ /\ predictedAddress' = [predictedAddress EXCEPT ![i] =
                 GetContractAddress(EvmAddress, TransactionCount)]
          /\ calls' = [calls EXCEPT ![i] =
                 Append(Resolve(@, TransactionCount), Call("addTxIntention", [intention |-> i]))]
          /\ pc' = [pc EXCEPT ![i] = "addTxIntention"]
          /\ UNCHANGED result
    /\ UNCHANGED <<tool, extra, confirmed, btcTx, signedEvmTx, receiptInfo, verificationInfo,
                   receipt, accepted, analyticalVars, hostVars>>

\* addTxIntention settles: up to `await finalizeBTCTransaction(config,
\* [intention], walletClient, ...)`.
AddTxIntentionSettles(i) ==
    /\ tool[i] \in PipelineTools
    /\ pc[i] = "addTxIntention"
    /\ \/ /\ Throw(i)
          /\ calls' = [calls EXCEPT ![i] = Settle(@, "failed")]
       \/ /\ calls' = [calls EXCEPT ![i] =
                 Append(Settle(@, "ok"),
                        Call("finalizeBTCTransaction", [intentions |-> <<LastCall(i).arg.intention>>]))]
          /\ pc' = [pc EXCEPT ![i] = "finalizeBTCTransaction"]
          /\ UNCHANGED result
    /\ UNCHANGED <<tool, extra, confirmed, btcTx, signedEvmTx, receiptInfo, verificationInfo,
                   deployVars, analyticalVars, hostVars>>

\* finalizeBTCTransaction settles: btcTxId and btcTxHex are read off its
\* result, up to `await signIntention(config, walletClient, intention,
\* [intention], {txId: btcTxId, ...})`.
FinalizeBTCTransactionSettles(i) ==
    /\ tool[i] \in PipelineTools
    /\ pc[i] = "finalizeBTCTransaction"
    /\ \/ /\ Throw(i)
          /\ calls' = [calls EXCEPT ![i] = Settle(@, "failed")]
          /\ UNCHANGED btcTx
       \/ \E r \in FinalizeResults(i) :
          /\ btcTx' = [btcTx EXCEPT ![i] = r]
          /\ calls' = [calls EXCEPT ![i] =
                 Append(Settle(@, "ok"),
                        Call("signIntention",
                             [intention |-> LastCall(i).arg.intentions[1],
                              intentions |-> LastCall(i).arg.intentions,
                              txId |-> BtcTxIdOf(r)]))]
          /\ pc' = [pc EXCEPT ![i] = "signIntention"]
          /\ UNCHANGED result
    /\ UNCHANGED <<tool, extra, confirmed, signedEvmTx, receiptInfo, verificationInfo,
                   deployVars, analyticalVars, hostVars>>

\* Mutant: the raw transaction is read from a slot shared by all invocations
\* (the transaction finalized by whichever invocation), not from the local.
SignIntentionSettles_SharedBtcTx(i) ==
    /\ tool[i] \in PipelineTools
    /\ pc[i] = "signIntention"
    /\ \/ /\ Throw(i)
          /\ calls' = [calls EXCEPT ![i] = Settle(@, "failed")]
          /\ UNCHANGED signedEvmTx
       \/ \E j \in Invocations :
          LET signed == SignedIntention(LastCall(i).arg.intention, LastCall(i).arg.txId) IN
          /\ btcTx[j] # NotFinalized
          /\ signedEvmTx' = [signedEvmTx EXCEPT ![i] = signed]
          /\ calls' = [calls EXCEPT ![i] =
                 Append(Settle(@, "ok"),
                        Call("eth_sendBTCTransactions",
                             [serializedTransactions |-> <<signed>>,
                              btcTransaction |-> BtcTxHexOf(btcTx[j])]))]
          /\ pc' = [pc EXCEPT ![i] = "eth_sendBTCTransactions"]
          /\ UNCHANGED result
    /\ UNCHANGED <<tool, extra, confirmed, btcTx, receiptInfo, verificationInfo,
                   deployVars, analyticalVars, hostVars>>

\* signIntention settles: the hash is taken, up to `await
\* sendBTCTransactions(walletClient, {serializedTransactions: [signedEvmTx],
\* btcTransaction: btcTxHex})`.
SignIntentionSettles(i) ==
    /\ tool[i] \in PipelineTools
    /\ pc[i] = "signIntention"
    /\ \/ /\ Throw(i)
          /\ calls' = [calls EXCEPT ![i] = Settle(@, "failed")]
          /\ UNCHANGED signedEvmTx
       \/ LET signed == SignedIntention(LastCall(i).arg.intention, LastCall(i).arg.txId) IN
          /\ signedEvmTx' = [signedEvmTx EXCEPT ![i] = signed]
          /\ calls' = [calls EXCEPT ![i] =
                 Append(Settle(@, "ok"),
                        Call("eth_sendBTCTransactions",
                             [serializedTransactions |-> <<signed>>,
                              btcTransaction |-> BtcTxHexOf(btcTx[i])]))]
          /\ pc' = [pc EXCEPT ![i] = "eth_sendBTCTransactions"]
          /\ UNCHANGED result
    /\ UNCHANGED <<tool, extra, confirmed, btcTx, receiptInfo, verificationInfo,
                   deployVars, analyticalVars, hostVars>>

\* The requests sendBTCTransactions has made so far in invocation i.
SendAttempts(i) ==
    Cardinality({k \in DOMAIN calls[i] : calls[i][k].op = "eth_sendBTCTransactions"})

\* The network can accept the submission of invocation i: there is a Bitcoin
\* transaction and the UTXO it spends is unspent.
CanAccept(i) == btcTx[i].hasTx /\ btcTx[i].utxo \in Unspent

\* Mutant: a rejected submission is swallowed and the receipt wait starts.
SendBTCTransactionsSettles_IgnoresFailure(i) ==
    /\ tool[i] \in PipelineTools
    /\ pc[i] = "eth_sendBTCTransactions"
    /\ \E status \in {"ok", "failed"} :
          /\ calls' = [calls EXCEPT ![i] =
                 Append(Settle(@, status),
                        Call("waitForTransactionReceipt", [hash |-> Keccak256(signedEvmTx[i])]))]
          /\ IF status = "ok"
             THEN CanAccept(i) /\ accepted' = Append(accepted, i)
             ELSE UNCHANGED accepted
    /\ pc' = [pc EXCEPT ![i] = "waitForTransactionReceipt"]
    /\ UNCHANGED <<tool, extra, confirmed, btcTx, signedEvmTx, receiptInfo, verificationInfo,
                   result, predictedAddress, receipt, analyticalVars, hostVars>>

\* Mutant: a rejected submission is reported with the success text and the
\* transaction ids.
SendBTCTransactionsSettles_ReportsSuccess(i) ==
    /\ tool[i] \in PipelineTools
    /\ pc[i] = "eth_sendBTCTransactions"
    /\ \/ /\ calls' = [calls EXCEPT ![i] = Settle(@, "failed")]
          /\ Return(i, [isError |-> FALSE,
                        text |-> "Contract call executed successfully!",
                        btcTxId |-> BtcTxIdOf(btcTx[i]),
                        evmTxHash |-> Keccak256(signedEvmTx[i]),
                        receiptInfo |-> receiptInfo[i]])
          /\ UNCHANGED accepted
       \/ /\ CanAccept(i)
          /\ accepted' = Append(accepted, i)
          /\ calls' = [calls EXCEPT ![i] =
                 Append(Settle(@, "ok"),
                        Call("waitForTransactionReceipt", [hash |-> Keccak256(signedEvmTx[i])]))]
          /\ pc' = [pc EXCEPT ![i] = "waitForTransactionReceipt"]
          /\ UNCHANGED result
    /\ UNCHANGED <<tool, extra, confirmed, btcTx, signedEvmTx, receiptInfo, verificationInfo,
                   predictedAddress, receipt, analyticalVars, hostVars>>

\* eth_sendBTCTransactions settles.  A failed request is repeated while the
\* options allow it, then the failure is thrown; on success, up to `await
\* waitForTransactionReceipt(walletClient, {hash: evmTxHash, timeout: 60_000})`.
SendBTCTransactionsSettles(i) ==
    /\ tool[i] \in PipelineTools
    /\ pc[i] = "eth_sendBTCTransactions"
    /\ \/ /\ IF SendAttempts(i) <= RequestOptions.retryCount
             THEN /\ calls' = [calls EXCEPT ![i] =
                         Append(Settle(@, "failed"), Call(LastCall(i).op, LastCall(i).arg))]
                  /\ UNCHANGED <<pc, result>>
             ELSE /\ calls' = [calls EXCEPT ![i] = Settle(@, "failed")]
                  /\ Throw(i)
          /\ UNCHANGED accepted
       \/ /\ CanAccept(i)
          /\ accepted' = Append(accepted, i)
          /\ calls' = [calls EXCEPT ![i] =
                 Append(Settle(@, "ok"),
                        Call("waitForTransactionReceipt", [hash |-> Keccak256(signedEvmTx[i])]))]
          /\ pc' = [pc EXCEPT ![i] = "waitForTransactionReceipt"]
          /\ UNCHANGED result
    /\ UNCHANGED <<tool, extra, confirmed, btcTx, signedEvmTx, receiptInfo, verificationInfo,
                   predictedAddress, receipt, analyticalVars, hostVars>>

\* The `receiptInfo` of each handler once the receipt is there, and the one
\* of the inner catch.
ConfirmedInfo(t) ==
    IF t = CallContract THEN "Confirmed at block: " ELSE "Contract deployed at block: "

UnconfirmedInfo == "Note: Transaction submitted, waiting for confirmation..."

\* The success result of call-contract.
CallContractResult(i, info) ==
    [isError |-> FALSE,
     text |-> "Contract call executed successfully!",
     btcTxId |-> BtcTxIdOf(btcTx[i]),
     evmTxHash |-> Keccak256(signedEvmTx[i]),
     receiptInfo |-> info]

\* Mutant: the address is worked out when the result is written, from the
\* transaction count of that moment.
DeployResult_LatePrediction(i, verification) ==
    [isError |-> FALSE,
     text |-> "Contract deployed successfully!",
     contractAddress |-> GetContractAddress(EvmAddress, TransactionCount),
     btcTxId |-> BtcTxIdOf(btcTx[i]),
     evmTxHash |-> Keccak256(signedEvmTx[i]),
     receiptInfo |-> receiptInfo[i],
     verificationInfo |-> verification]

\* The success result of deploy-contract-source.
DeployResult(i, verification) ==
    [isError |-> FALSE,
     text |-> "Contract deployed successfully!",
     contractAddress |-> predictedAddress[i],
     btcTxId |-> BtcTxIdOf(btcTx[i]),
     evmTxHash |-> Keccak256(signedEvmTx[i]),
     receiptInfo |-> receiptInfo[i],
     verificationInfo |-> verification]

\* What the receipt wait may come to: a receipt, whatever its status, or an
\* exception (the 60 s timeout).
WaitOutcomes == ReceiptStatuses \cup {"timeout"}

\* Mutant: a wait that times out ends the invocation with the error of the
\* outer catch.
WaitForTransactionReceiptSettles_TimeoutIsError(i) ==
    /\ tool[i] \in PipelineTools
    /\ pc[i] = "waitForTransactionReceipt"
    /\ \E outcome \in WaitOutcomes :
        IF outcome = "timeout"
        THEN /\ calls' = [calls EXCEPT ![i] = Settle(@, "failed")]
             /\ Throw(i)
             /\ UNCHANGED <<receipt, receiptInfo>>
        ELSE /\ receipt' = [receipt EXCEPT ![i] = [status |-> outcome]]
             /\ receiptInfo' = [receiptInfo EXCEPT ![i] = ConfirmedInfo(tool[i])]
             /\ IF tool[i] = CallContract
                THEN /\ Return(i, CallContractResult(i, ConfirmedInfo(tool[i])))
                     /\ calls' = [calls EXCEPT ![i] = Settle(@, "ok")]
                ELSE /\ calls' = [calls EXCEPT ![i] =
                            Append(Settle(@, "ok"),
                                   Call("fetch", [url |-> "verification/via/flattened-code"]))]
                     /\ pc' = [pc EXCEPT ![i] = "fetch"]
                     /\ UNCHANGED result
    /\ UNCHANGED <<tool, extra, confirmed, btcTx, signedEvmTx, verificationInfo,
                   predictedAddress, accepted, analyticalVars, hostVars>>

\* The receipt wait settles (the inner try/catch): call-contract returns its
\* success text; deploy-contract-source goes on to `await fetch(...)` of the
\* Blockscout verification.  The status of the receipt is not read.
WaitForTransactionReceiptSettles(i) ==
    /\ tool[i] \in PipelineTools
    /\ pc[i] = "waitForTransactionReceipt"
    /\ \E outcome \in WaitOutcomes :
        LET arrived == outcome \in ReceiptStatuses
            info == IF arrived THEN ConfirmedInfo(tool[i]) ELSE UnconfirmedInfo
        IN
        /\ receipt' = [receipt EXCEPT ![i] = IF arrived THEN [status |-> outcome] ELSE @]
        /\ receiptInfo' = [receiptInfo EXCEPT ![i] = info]
        /\ IF tool[i] = CallContract
           THEN /\ Return(i, CallContractResult(i, info))
                /\ calls' = [calls EXCEPT ![i] = Settle(@, IF arrived THEN "ok" ELSE "failed")]
           ELSE /\ calls' = [calls EXCEPT ![i] =
                       Append(Settle(@, IF arrived THEN "ok" ELSE "failed"),
                              Call("fetch", [url |-> "verification/via/flattened-code"]))]
                /\ pc' = [pc EXCEPT ![i] = "fetch"]
                /\ UNCHANGED result
    /\ UNCHANGED <<tool, extra, confirmed, btcTx, signedEvmTx, verificationInfo,
                   predictedAddress, accepted, analyticalVars, hostVars>>

\* The verification request settles (the inner try/catch) and
\* deploy-contract-source returns its success text.
VerificationSettles(i) ==
    /\ tool[i] = DeployContractSource
    /\ pc[i] = "fetch"
    /\ \E outcome \in {"ok", "notOk", "throws"} :
        LET verification ==
                CASE outcome = "ok" -> "Contract verification submitted to Blockscout"
                  [] outcome = "notOk" -> "Verification failed: "
                  [] outcome = "throws" -> "Auto-verification skipped: "
        IN
        /\ verificationInfo' = [verificationInfo EXCEPT ![i] = verification]
        /\ calls' = [calls EXCEPT ![i] = Settle(@, IF outcome = "throws" THEN "failed" ELSE "ok")]
        /\ Return(i, DeployResult(i, verification))
    /\ UNCHANGED <<tool, extra, confirmed, btcTx, signedEvmTx, receiptInfo,
                   deployVars, analyticalVars, hostVars>>

-----------------------------------------------------------------------------
(* The analytical tools get-wallet-balance and estimate-btc-transfer-fee   *)

\* The `from` and `address` arguments: left out, an address of a connected
\* account, an address of no connected account.
AddressArgs == {"undefined", "connected", "unknown"}

\* The `feeRate` argument; 0 also stands for a feeRate left out (both are
\* falsy).
FeeRateArgs == {-1, 0, 3}

\* The `recipients` argument.
Recipient(n) == [address |-> <<"recipient", n>>, amount |-> 1000 * n]
RecipientLists == {<<>>, <<Recipient(1), Recipient(2)>>}

\* What getDefaultAccount(config) yields.
DefaultAccounts == {"account", "undefined"}

\* `from ? state.accounts?.find(a => a.address === from) : getDefaultAccount(config)`
AccountOf(from, defaultAccount) ==
    CASE from = "undefined" -> defaultAccount
      [] from = "connected" -> "account"
      [] from = "unknown" -> "undefined"

\* `address || getDefaultAccount(config)?.address`
TargetAddressOf(address, defaultAccount) ==
    IF address # "undefined" THEN "address"
    ELSE IF defaultAccount = "account" THEN "address" ELSE "undefined"

\* What (await getFeeRate(config)).hourFee may be.
HourFees == {2}

\* `feeRate || hourFee`
FeeRateOr(feeRate, hourFee) == IF feeRate # 0 THEN feeRate ELSE hourFee

\* What getUTXOs may resolve to: the values of the account's UTXOs.
UtxoLists == {<<>>, <<60000, 5000>>}

\* `recipients.map(r => ({address: r.address, value: r.amount}))`
TargetsOf(recipients) ==
    [k \in DOMAIN recipients |-> [address |-> recipients[k].address, value |-> recipients[k].amount]]

\* The fees coinSelect may report.
Fees == {226, 500}

\* What coinSelect(utxos, targets, feeRate) may return: the fee alone when it
\* found no selection, else the UTXOs it picked, the targets with or without
\* a change output, and the fee.
CoinSelect(utxos, targets, feeRate) ==
    {[inputs |-> Undefined, outputs |-> Undefined, fee |-> fee] : fee \in Fees}
    \cup
    {[inputs |-> Array(SubSeq(utxos, 1, n)), outputs |-> Array(outs), fee |-> fee] :
        n \in 1..Len(utxos),
        outs \in {targets, Append(targets, [value |-> 1])},
        fee \in Fees}

\* The handler is left by an exception: estimate-btc-transfer-fee has no
\* try/catch.
Reject(i) ==
    /\ pc' = [pc EXCEPT ![i] = "rejected"]
    /\ UNCHANGED result

\* estimate-btc-transfer-fee, up to `await getFeeRate(config)` when no fee
\* rate was given, else up to `await getUTXOs(config, account.address)`.
StartEstimateBtcTransferFee(i) ==
    /\ CanStart(i)
    /\ tool' = [tool EXCEPT ![i] = EstimateBtcTransferFee]
    /\ \E from \in AddressArgs, feeRate \in FeeRateArgs, recipients \in RecipientLists,
          defaultAccount \in DefaultAccounts :
        /\ args' = [args EXCEPT ![i] =
               [feeRate |-> feeRate, recipients |-> recipients]]
        /\ IF AccountOf(from, defaultAccount) = "undefined"
           THEN /\ Return(i, Err("Error: No account found for the specified address."))
                /\ UNCHANGED <<calls, currentFeeRate>>
           ELSE IF feeRate # 0
           THEN /\ currentFeeRate' = [currentFeeRate EXCEPT ![i] = feeRate]
                /\ calls' = [calls EXCEPT ![i] = Append(@, Call("getUTXOs", [address |-> "address"]))]
                /\ pc' = [pc EXCEPT ![i] = "getUTXOs"]
                /\ UNCHANGED result
           ELSE /\ calls' = [calls EXCEPT ![i] = Append(@, Call("getFeeRate", [network |-> "network"]))]
                /\ pc' = [pc EXCEPT ![i] = "getFeeRate"]
                /\ UNCHANGED <<result, currentFeeRate>>
    /\ UNCHANGED <<extra, confirmed, btcTx, signedEvmTx, receiptInfo, verificationInfo,
                   deployVars, hostVars, selected>>

\* getFeeRate settles: `feeRate || hourFee`, up to `await getUTXOs(...)`.
GetFeeRateSettles(i) ==
    /\ tool[i] = EstimateBtcTransferFee
    /\ pc[i] = "getFeeRate"
    /\ \/ /\ Reject(i)
          /\ calls' = [calls EXCEPT ![i] = Settle(@, "failed")]
          /\ UNCHANGED currentFeeRate
       \/ \E hourFee \in HourFees :
          /\ currentFeeRate' = [currentFeeRate EXCEPT ![i] = FeeRateOr(args[i].feeRate, hourFee)]
          /\ calls' = [calls EXCEPT ![i] =
                 Append(Resolve(@, hourFee), Call("getUTXOs", [address |-> "address"]))]
          /\ pc' = [pc EXCEPT ![i] = "getUTXOs"]
          /\ UNCHANGED result
    /\ UNCHANGED <<tool, extra, confirmed, btcTx, signedEvmTx, receiptInfo, verificationInfo,
                   deployVars, hostVars, args, selected>>

\* Mutant: the selection is never taken for a failed one.
NoSelection_Never(s) == FALSE

\* `!selected.inputs || !selected.outputs`
NoSelection(s) == s.inputs.kind = "undefined" \/ s.outputs.kind = "undefined"

\* The success result of estimate-btc-transfer-fee: the fee, the fee rate,
\* the numbers of inputs and outputs.
Length(a) == IF a.kind = "array" THEN Len(a.items) ELSE -1

EstimateResult(s, feeRate) ==
    [isError |-> FALSE,
     text |-> "Estimated Fee: ",
     fee |-> s.fee,
     feeRate |-> feeRate,
     inputs |-> Length(s.inputs),
     outputs |-> Length(s.outputs)]

\* getUTXOs settles: coinSelect runs on them and the handler returns.
GetUTXOsSettles(i) ==
    /\ tool[i] = EstimateBtcTransferFee
    /\ pc[i] = "getUTXOs"
    /\ \/ /\ Reject(i)
          /\ calls' = [calls EXCEPT ![i] = Settle(@, "failed")]
          /\ UNCHANGED selected
       \/ \E utxos \in UtxoLists :
          \E s \in CoinSelect(utxos, TargetsOf(args[i].recipients), currentFeeRate[i]) :
          /\ selected' = [selected EXCEPT ![i] = s]
          /\ calls' = [calls EXCEPT ![i] = Resolve(@, utxos)]
          /\ IF NoSelection(s)
             THEN Return(i, Err("Error: Insufficient funds or no suitable UTXOs found for this transfer."))
             ELSE Return(i, EstimateResult(s, currentFeeRate[i]))
    /\ UNCHANGED <<tool, extra, confirmed, btcTx, signedEvmTx, receiptInfo, verificationInfo,
                   deployVars, hostVars, args, currentFeeRate>>

\* get-wallet-balance, up to `await getBalance(config, targetAddress)`.
StartGetWalletBalance(i) ==
    /\ CanStart(i)
    /\ tool' = [tool EXCEPT ![i] = GetWalletBalance]
    /\ \E address \in AddressArgs, defaultAccount \in DefaultAccounts :
        IF TargetAddressOf(address, defaultAccount) = "undefined"
        THEN /\ Return(i, Err("Error: No address provided and no account connected."))
             /\ UNCHANGED calls
        ELSE /\ calls' = [calls EXCEPT ![i] = Append(@, Call("getBalance", [address |-> "address"]))]
             /\ pc' = [pc EXCEPT ![i] = "getBalance"]
             /\ UNCHANGED result
    /\ UNCHANGED <<extra, confirmed, btcTx, signedEvmTx, receiptInfo, verificationInfo,
                   deployVars, analyticalVars, hostVars>>

\* getBalance settles (inside the try/catch).
GetBalanceSettles(i) ==
    /\ tool[i] = GetWalletBalance
    /\ pc[i] = "getBalance"
    /\ \/ /\ Return(i, Ok("Balance for "))
          /\ calls' = [calls EXCEPT ![i] = Settle(@, "ok")]
       \/ /\ Return(i, Err("Error fetching balance: "))
          /\ calls' = [calls EXCEPT ![i] = Settle(@, "failed")]
    /\ UNCHANGED <<tool, extra, confirmed, btcTx, signedEvmTx, receiptInfo, verificationInfo,
                   deployVars, analyticalVars, hostVars>>

-----------------------------------------------------------------------------
(* prepare-btc-transfer and decode-psbt.  A PSBT is its inputs (the        *)
(* outpoint each spends, and whether it is finalized), its outputs and its *)
(* lock time; transferBTC builds it and bitcoinjs-lib reads it.            *)

\* The PSBT transferBTC builds for the transfers of invocation n: it spends
\* the account's UTXOs in their order and pays the transfers in theirs.
PsbtFor(n, transfers, finalized) ==
    [inputs |-> [k \in Utxos |-> [txid |-> TxId(k), vout |-> k - 1, finalized |-> finalized]],
     outputs |-> [k \in DOMAIN transfers |->
                     [address |-> transfers[k].receiver, value |-> transfers[k].amount]],
     locktime |-> n]

\* `recipients.map(r => ({ receiver: r.address, amount: r.amount }))`
TransfersOf(recipients) ==
    [k \in DOMAIN recipients |-> [receiver |-> recipients[k].address, amount |-> recipients[k].amount]]

\* The base64 envelope of a PSBT, and a string that is none.
ToBase64(psbt) == [base64 |-> TRUE, psbt |-> psbt]
Malformed == [base64 |-> FALSE]

\* `response.psbt` of the prepare-btc-transfer invocations that returned one.
PreparedPsbts ==
    {calls[i][1].ret.psbt :
        i \in {n \in Invocations : /\ tool[n] = PrepareBtcTransfer
                                   /\ calls[n] # <<>>
                                   /\ calls[n][1].status = "ok"}}

\* `psbt.extractTransaction()`: bitcoinjs-lib throws "Not finalized" unless
\* every input is finalized.
ExtractTransaction(psbt) ==
    IF \A k \in DOMAIN psbt.inputs : psbt.inputs[k].finalized
    THEN [throws |-> FALSE, id |-> <<"txid", psbt.locktime>>]
    ELSE [throws |-> TRUE, id |-> EmptyString]

\* `data` of decode-psbt
DecodedData(psbt) ==
    [txId |-> ExtractTransaction(psbt).id,
     locktime |-> psbt.locktime,
     inputs |-> [k \in DOMAIN psbt.inputs |->
                    [index |-> k - 1, hash |-> psbt.inputs[k].txid, vout |-> psbt.inputs[k].vout]],
     outputs |-> [k \in DOMAIN psbt.outputs |->
                     [index |-> k - 1, address |-> psbt.outputs[k].address,
                      value |-> psbt.outputs[k].value]]]

\* A result whose text is JSON.stringify(data, null, 2).
Json(data) == [isError |-> FALSE, text |-> "JSON", data |-> data]

\* prepare-btc-transfer, up to `await transferBTC(...)`.
StartPrepareBtcTransfer(i) ==
    /\ CanStart(i)
    /\ tool' = [tool EXCEPT ![i] = PrepareBtcTransfer]
    /\ \E recipients \in RecipientLists, feeRate \in FeeRateArgs :
        calls' = [calls EXCEPT ![i] =
            Append(@, Call("transferBTC", [transfers |-> TransfersOf(recipients),
                                           feeRate |-> feeRate, publish |-> FALSE]))]
    /\ pc' = [pc EXCEPT ![i] = "transferBTC"]
    /\ UNCHANGED <<extra, confirmed, btcTx, signedEvmTx, receiptInfo, verificationInfo, result,
                   deployVars, analyticalVars, hostVars>>

\* transferBTC settles: it rejects, or it resolves to a PSBT for the
\* transfers, signed when the connector signs and unsigned when it does not.
TransferBTCSettles(i) ==
    /\ tool[i] = PrepareBtcTransfer
    /\ pc[i] = "transferBTC"
    /\ \/ /\ Throw(i)
          /\ calls' = [calls EXCEPT ![i] = Settle(@, "failed")]
       \/ \E finalized \in BOOLEAN :
          /\ calls' = [calls EXCEPT ![i] =
                 Resolve(@, [psbt |-> ToBase64(PsbtFor(i, LastCall(i).arg.transfers, finalized)),
                             tx |-> [id |-> <<"txid", i>>]])]
          /\ Return(i, Ok("PSBT Prepared successfully."))
    /\ UNCHANGED <<tool, extra, confirmed, btcTx, signedEvmTx, receiptInfo, verificationInfo,
                   deployVars, analyticalVars, hostVars>>

\* decode-psbt: the whole handler (it awaits nothing).  Psbt.fromBase64
\* throws on a string that is no PSBT.
DecodePsbtCalled(i) ==
    /\ CanStart(i)
    /\ tool' = [tool EXCEPT ![i] = DecodePsbt]
    /\ \E psbtBase64 \in PreparedPsbts \cup {Malformed} :
        IF ~psbtBase64.base64
        THEN /\ calls' = [calls EXCEPT ![i] =
                    Append(@, Settle(<<Call("Psbt.fromBase64", psbtBase64)>>, "failed")[1])]
             /\ ThrowIn(i, DecodePsbt)
        ELSE /\ calls' = [calls EXCEPT ![i] =
                    Append(@, Settle(<<Call("Psbt.fromBase64", psbtBase64)>>, "ok")[1])]
             /\ IF ExtractTransaction(psbtBase64.psbt).throws
                THEN ThrowIn(i, DecodePsbt)
                ELSE Return(i, Json(DecodedData(psbtBase64.psbt)))
    /\ UNCHANGED <<extra, confirmed, btcTx, signedEvmTx, receiptInfo, verificationInfo,
                   deployVars, analyticalVars, hostVars>>

-----------------------------------------------------------------------------
(* The process: createMidlConfigFromEnv, MidlConfigWrapper, main and the   *)
(* ServerConnector.                                                        *)

\* The connectors: what each one holds.
ServerConnector(address, key) ==
    [id |-> "server-connector", address |-> address, publicKey |-> key]
KeyPairConnector(mnemonic) == [id |-> "keyPair", mnemonic |-> mnemonic]

\* `accounts` of the address mode: the same address for both purposes.
AddressAccounts(address, key) ==
    <<[address |-> address, publicKey |-> key, purpose |-> "ordinals"],
      [address |-> address, publicKey |-> key, purpose |-> "payment"]>>

\* `networkId`, `bitcoinNetwork` and `networks`
NetworkIdOf(e) == OrElse(e.MIDL_NETWORK, Testnet)

BitcoinNetworkOf(networkId) ==
    IF networkId = Mainnet THEN Bitcoin
    ELSE IF networkId = Regtest THEN Regtest
    ELSE Testnet

NetworksOf(e) ==
    <<[id |-> NetworkIdOf(e), network |-> BitcoinNetworkOf(NetworkIdOf(e))]>>

\* createConfig: a store whose network is the first configured one, with no
\* connection yet.
CreateConfig(mode, networks) ==
    [mode |-> mode,
     state |-> [connection |-> Undefined, network |-> networks[1], accounts |-> <<>>]]

\* config.setState({ connection, accounts }) merges into the state.
SetState(config, connection, accounts) ==
    [config EXCEPT !.state = [connection |-> connection,
                              network |-> @.network,
                              accounts |-> accounts]]

\* The address mode, from `new ServerConnector` to `return config`.
AddressConfig(e, key) ==
    SetState(CreateConfig("address", NetworksOf(e)),
             ServerConnector(e.MIDL_ACCOUNT_ADDRESS.value, key),
             AddressAccounts(e.MIDL_ACCOUNT_ADDRESS.value, key))

\* The mock main falls back to.
MockConfig ==
    [mode |-> "mock",
     state |-> [connection |-> [id |-> "mock"],
                network |-> [id |-> Testnet, network |-> Testnet],
                accounts |-> <<[address |-> MockAddress]>>]]

\* Mutant: the address wins over the mnemonic.
ModeOf_AddressFirst(e) ==
    IF Truthy(e.MIDL_ACCOUNT_ADDRESS) THEN "address"
    ELSE IF Truthy(e.MIDL_MNEMONIC) THEN "mnemonic"
    ELSE "null"

\* The mode createMidlConfigFromEnv takes: `if (mnemonic)`, `if (!address)`.
ModeOf(e) ==
    IF Truthy(e.MIDL_MNEMONIC) THEN "mnemonic"
    ELSE IF ~Truthy(e.MIDL_ACCOUNT_ADDRESS) THEN "null"
    ELSE "address"

\* `!publicKey || publicKey === "NOT_SET" || publicKey.includes("...")`
NeedsRecovery(key) ==
    key = EmptyString \/ key = NotSetPlaceholder \/ Includes(key, Ellipsis)

\* Mutant: the wrapper accepts every configured network.
ValidateConfig_AnyNetwork(state) ==
    IF state.connection = Undefined
    THEN "MIDL MCP Server requires a pre-connected wallet configuration."
    ELSE IF state.network = Undefined
    THEN "No network configured in MIDL state."
    ELSE "ok"

\* validateConfig: "ok", or the message of the error it throws.
ValidateConfig(state) ==
    IF state.connection = Undefined
    THEN "MIDL MCP Server requires a pre-connected wallet configuration."
    ELSE IF state.network = Undefined
    THEN "No network configured in MIDL state."
    ELSE IF ~(\/ Includes(ToLowerCase(state.network.network), Testnet)
              \/ Includes(ToLowerCase(state.network.network), Regtest))
    THEN "MIDL MCP Server is currently restricted to testnet/regtest."
    ELSE "ok"

\* The catch block of main: process.exit(1).
Exit ==
    /\ process' = "exit(1)"
    /\ main' = "exited"

\* main calls createMidlConfigFromEnv, which runs to its first await or to
\* its return.
CreateMidlConfigFromEnv ==
    /\ main = "start"
    /\ \E e \in Envs :
        /\ env' = e
        /\ publicKey' = OrElse(e.MIDL_ACCOUNT_PUBKEY, EmptyString)
        /\ CASE ModeOf(e) = "mnemonic" ->
                  /\ midlConfig' = CreateConfig("mnemonic", NetworksOf(e))
                  /\ main' = "connect"
             [] ModeOf(e) = "null" ->
                  /\ midlConfig' = Null
                  /\ main' = "created"
             [] OTHER ->
                  IF NeedsRecovery(OrElse(e.MIDL_ACCOUNT_PUBKEY, EmptyString))
                  THEN /\ main' = "fetch"
                       /\ UNCHANGED midlConfig
                  ELSE /\ midlConfig' = AddressConfig(e, e.MIDL_ACCOUNT_PUBKEY.value)
                       /\ main' = "created"
    /\ UNCHANGED <<midlWrapper, registered, transport, process, connectorCalls, reads, importVars, toolVars>>

\* `await connect(config, ...)` of the mnemonic mode settles.
ConnectSettles ==
    /\ main = "connect"
    /\ \/ /\ midlConfig' = SetState(midlConfig, KeyPairConnector(env.MIDL_MNEMONIC.value),
                                    AddressAccounts(MnemonicAddress, PubKey))
          /\ main' = "created"
          /\ UNCHANGED process
       \/ /\ Exit
          /\ UNCHANGED midlConfig
    /\ UNCHANGED <<env, publicKey, midlWrapper, registered, transport, connectorCalls, reads, importVars, toolVars>>

\* The fetch of the public key recovery settles: a witness of the address is
\* found, or none is (or the fetch fails, which the code only logs).
RecoverySettles ==
    /\ main = "fetch"
    /\ \E key \in {publicKey, RecoveredPubKey} :
        /\ publicKey' = key
        /\ midlConfig' = AddressConfig(env, key)
    /\ main' = "created"
    /\ UNCHANGED <<env, midlWrapper, registered, transport, process, connectorCalls, reads, importVars, toolVars>>

\* main after `await createMidlConfigFromEnv()`: the mock fallback, the
\* wrapper, the server with its registrations, and runStdio up to
\* `await this.server.connect(transport)`.
WrapAndRegister ==
    /\ main = "created"
    /\ LET config == IF midlConfig = Null THEN MockConfig ELSE midlConfig
       IN /\ midlConfig' = config
          /\ IF ValidateConfig(config.state) = "ok"
             THEN /\ midlWrapper' = config
                  /\ registered' = TRUE
                  /\ main' = "server.connect"
                  /\ UNCHANGED process
             ELSE /\ Exit
                  /\ UNCHANGED <<midlWrapper, registered>>
    /\ UNCHANGED <<env, publicKey, transport, connectorCalls, reads, importVars, toolVars>>

\* server.connect(transport) settles.
ServerConnectSettles ==
    /\ main = "server.connect"
    /\ \/ /\ transport' = "connected"
          /\ main' = "returned"
          /\ UNCHANGED process
       \/ /\ Exit
          /\ UNCHANGED transport
    /\ UNCHANGED <<env, publicKey, midlConfig, midlWrapper, registered, connectorCalls, reads, importVars, toolVars>>

\* The calls a ServerConnector serves while the model follows it.
MaxConnectorCalls == 2

\* The PSBTs the connector is handed, and what it is asked to sign in them.
Psbts == {PsbtOf(n) : n \in Invocations}
SignInputs == {{0}, {0, 1}}

\* A PSBT with signatures on the given inputs.
WithSignatures(psbt, inputs) == <<"psbt", psbt[2], inputs>>

\* Mutant: the connector signs what it is asked to sign.
ServerConnectorSignPSBT_Signs(params) ==
    [psbt |-> WithSignatures(params.psbt, params.signInputs)]

\* ServerConnector.signPSBT: `return { psbt: params.psbt }`
ServerConnectorSignPSBT(params) == [psbt |-> params.psbt]

\* The connector of the wrapped configuration is a ServerConnector and the
\* server is up.
ServerConnectorServes ==
    /\ transport = "connected"
    /\ midlWrapper # Undefined
    /\ midlWrapper.state.connection.id = "server-connector"
    /\ Len(connectorCalls) < MaxConnectorCalls

\* connection.signPSBT(params) is called and resolves.
SignPSBTCalled ==
    /\ ServerConnectorServes
    /\ \E psbt \in Psbts, signInputs \in SignInputs :
        LET params == [psbt |-> psbt, signInputs |-> signInputs]
        IN connectorCalls' = Append(connectorCalls,
               [op |-> "signPSBT", params |-> params, status |-> "resolved",
                value |-> ServerConnectorSignPSBT(params)])
    /\ UNCHANGED <<startVars, reads, importVars, toolVars>>

\* connection.signMessage() is called and rejects.
SignMessageCalled ==
    /\ ServerConnectorServes
    /\ connectorCalls' = Append(connectorCalls,
           [op |-> "signMessage", status |-> "rejected",
            value |-> "signMessage not supported by server-side connector. Use elicitation tools."])
    /\ UNCHANGED <<startVars, reads, importVars, toolVars>>

-----------------------------------------------------------------------------
(* The bitcoin-balance resource *)

\* Reads are numbered in the order they arrive.
CanRead(i) ==
    /\ reads[i].pc = "idle"
    /\ \A j \in Invocations : j < i => reads[j].pc # "idle"

\* The handler up to `await getBalance(config, address)`, or to the throw
\* for a missing address.
ReadBalance(i) ==
    /\ CanRead(i)
    /\ \E uri \in Uris :
        LET address == AddressOf(uri) IN
        IF address = EmptyString
        THEN reads' = [reads EXCEPT ![i] =
                 [@ EXCEPT !.pc = "rejected", !.uri = uri, !.error = "Missing address"]]
        ELSE reads' = [reads EXCEPT ![i] =
                 [@ EXCEPT !.pc = "getBalance", !.uri = uri, !.address = address,
                           !.calls = Append(@, Call("getBalance", address))]]
    /\ UNCHANGED <<startVars, connectorCalls, importVars, toolVars>>

\* getBalance settles: the contents, or the provider's error.
ReadBalanceSettles(i) ==
    /\ reads[i].pc = "getBalance"
    /\ \/ \E balanceSats \in Balances, separator \in GroupSeparators :
            reads' = [reads EXCEPT ![i] =
                [@ EXCEPT !.pc = "done",
                          !.calls = Resolve(@, balanceSats),
                          !.contents =
                              <<[uri |-> reads[i].uri.href,
                                 text |-> <<"Balance for ">> \o reads[i].address \o <<": ">>
                                              \o FormatBalance(balanceSats, separator),
                                 mimeType |-> "text/plain"]>>]]
       \/ reads' = [reads EXCEPT ![i] =
              [@ EXCEPT !.pc = "rejected", !.calls = Settle(@, "failed"), !.error = "getBalance"]]
    /\ UNCHANGED <<startVars, connectorCalls, importVars, toolVars>>

-----------------------------------------------------------------------------
(* resolveImports of deploy-contract-source and verify-contract: the same  *)
(* code in both handlers.                                                  *)

\* `sources[importPath]` is set.
Has(map, path) == \E k \in DOMAIN map : map[k].path = path

\* `sources[importPath] = { content: importedSource }`
Put(map, path, content) == Append(map, [path |-> path, content |-> content])

\* The call of resolveImports that runs, and the import its loop stands at.
Top == stack[Len(stack)]
AtEnd == Top.at > Len(Top.content)
ImportPath == Top.content[Top.at]

\* The loop of the running call moves on to the next match.
NextMatch(frames) ==
    [frames EXCEPT ![Len(frames)] = [content |-> @.content, at |-> @.at + 1, pc |-> "loop"]]

\* Mutant: every import is fetched from the repository.
IsFetched_Every(path) == TRUE

\* `importPath.startsWith("@openzeppelin/")`
IsFetched(path) == StartsWith(path, OpenZeppelinPrefix)

\* Mutant: `sources` is not looked at.
IsNew_Unchecked(path) == TRUE

\* `importPath && !sources[importPath]`
IsNew(path) == path # EmptyString /\ ~Has(sources, path)

\* The handler sets up `sources` and calls resolveImports(sourceCode).
StartResolveImports ==
    /\ resolver = "none"
    /\ \E t \in {"deploy-contract-source", "verify-contract"},
          sourceCode \in Contents, fs \in FileSystems :
        /\ resolver' = t
        /\ files' = fs
        /\ sources' = Put(<<>>, ContractSol, sourceCode)
        /\ stack' = <<[content |-> sourceCode, at |-> 1, pc |-> "loop"]>>
        /\ descended' = <<ContractSol>>
    /\ UNCHANGED <<fetched, startVars, connectorCalls, reads, toolVars>>

\* One turn of the while loop: to its `continue`, to the next match, or to
\* `await fetch(url)`.
ImportMatched ==
    /\ stack # <<>>
    /\ Top.pc = "loop"
    /\ ~AtEnd
    /\ IF IsNew(ImportPath) /\ IsFetched(ImportPath)
       THEN /\ fetched' = Append(fetched, [path |-> ImportPath, present |-> Has(sources, ImportPath)])
            /\ stack' = [stack EXCEPT ![Len(stack)] = [@ EXCEPT !.pc = "fetch"]]
       ELSE /\ stack' = NextMatch(stack)
            /\ UNCHANGED fetched
    /\ UNCHANGED <<resolver, files, sources, descended, startVars, connectorCalls, reads, toolVars>>

\* What the repository answers for a path.
Served(path) == IF path \in DOMAIN files THEN files[path] ELSE NotOk

\* The fetch resolves: with a response that is ok the text is recorded under
\* the path and resolveImports is called on it; otherwise the loop goes on.
FetchResolves ==
    /\ stack # <<>>
    /\ Top.pc = "fetch"
    /\ IF ~Served(ImportPath).ok
       THEN /\ stack' = NextMatch(stack)
            /\ UNCHANGED <<sources, descended>>
       ELSE /\ sources' = Put(sources, ImportPath, Served(ImportPath).text)
            /\ descended' = Append(descended, ImportPath)
            /\ stack' = Append([stack EXCEPT ![Len(stack)] = [@ EXCEPT !.pc = "resolveImports"]],
                               [content |-> Served(ImportPath).text, at |-> 1, pc |-> "loop"])
    /\ UNCHANGED <<resolver, files, fetched, startVars, connectorCalls, reads, toolVars>>

\* The fetch rejects: the exception leaves every call of resolveImports, to
\* the catch block of the handler.
FetchRejects ==
    /\ stack # <<>>
    /\ Top.pc = "fetch"
    /\ stack' = <<>>
    /\ UNCHANGED <<resolver, files, sources, fetched, descended, startVars, connectorCalls,
                   reads, toolVars>>

\* The loop of the running call is over: the call returns, and the loop of
\* its caller goes on.
ResolveImportsReturns ==
    /\ stack # <<>>
    /\ Top.pc = "loop"
    /\ AtEnd
    /\ stack' = IF Len(stack) = 1 THEN <<>>
                ELSE NextMatch(SubSeq(stack, 1, Len(stack) - 1))
    /\ UNCHANGED <<resolver, files, sources, fetched, descended, startVars, connectorCalls,
                   reads, toolVars>>

-----------------------------------------------------------------------------
Next ==
    \E i \in Invocations :
        \/ StartRequestPsbtSignature(i)
        \/ SignElicitationResolves(i)
        \/ SignElicitationRejects(i)
        \/ SignPSBTSettles(i)
        \/ StartRequestTransactionBroadcast(i)
        \/ BroadcastElicitationResolves(i)
        \/ BroadcastElicitationRejects(i)
        \/ RequestedBroadcastSettles(i)
        \/ StartBroadcastTransaction(i)
        \/ BroadcastTransactionSettles(i)
        \/ StartCallContract(i)
        \/ StartDeployContractSource(i)
        \/ ResolveImportsSettles(i)
        \/ GetTransactionCountSettles(i)
        \/ AddTxIntentionSettles(i)
        \/ FinalizeBTCTransactionSettles(i)
        \/ SignIntentionSettles(i)
        \/ SendBTCTransactionsSettles(i)
        \/ WaitForTransactionReceiptSettles(i)
        \/ VerificationSettles(i)

Spec == Init /\ [][Next]_vars

\* The gated tools and broadcast-transaction alone.
GateNext ==
    \E i \in Invocations :
        \/ StartRequestPsbtSignature(i)
        \/ SignElicitationResolves(i)
        \/ SignElicitationRejects(i)
        \/ SignPSBTSettles(i)
        \/ StartRequestTransactionBroadcast(i)
        \/ BroadcastElicitationResolves(i)
        \/ BroadcastElicitationRejects(i)
        \/ RequestedBroadcastSettles(i)
        \/ StartBroadcastTransaction(i)
        \/ BroadcastTransactionSettles(i)

GateSpec == Init /\ [][GateNext]_vars

\* call-contract and deploy-contract-source alone.
PipelineNext ==
    \E i \in Invocations :
        \/ StartCallContract(i)
        \/ StartDeployContractSource(i)
        \/ ResolveImportsSettles(i)
        \/ GetTransactionCountSettles(i)
        \/ AddTxIntentionSettles(i)
        \/ FinalizeBTCTransactionSettles(i)
        \/ SignIntentionSettles(i)
        \/ SendBTCTransactionsSettles(i)
        \/ WaitForTransactionReceiptSettles(i)
        \/ VerificationSettles(i)

PipelineSpec == Init /\ [][PipelineNext]_vars

\* The analytical tools alone.
AnalyticalNext ==
    \E i \in Invocations :
        \/ StartEstimateBtcTransferFee(i)
        \/ GetFeeRateSettles(i)
        \/ GetUTXOsSettles(i)
        \/ StartGetWalletBalance(i)
        \/ GetBalanceSettles(i)

AnalyticalSpec == Init /\ [][AnalyticalNext]_vars

\* The start-up of the process and the calls of its ServerConnector.
StartupNext ==
    \/ CreateMidlConfigFromEnv
    \/ ConnectSettles
    \/ RecoverySettles
    \/ WrapAndRegister
    \/ ServerConnectSettles
    \/ SignPSBTCalled
    \/ SignMessageCalled

StartupSpec == Init /\ [][StartupNext]_vars


\* The reads of the bitcoin-balance resource.
ResourceNext ==
    \E i \in Invocations :
        \/ ReadBalance(i)
        \/ ReadBalanceSettles(i)

ResourceSpec == Init /\ [][ResourceNext]_vars

\* prepare-btc-transfer and decode-psbt.
PsbtNext ==
    \E i \in Invocations :
        \/ StartPrepareBtcTransfer(i)
        \/ TransferBTCSettles(i)
        \/ DecodePsbtCalled(i)

PsbtSpec == Init /\ [][PsbtNext]_vars

\* The import resolution of one invocation.
ImportNext ==
    \/ StartResolveImports
    \/ ImportMatched
    \/ FetchResolves
    \/ FetchRejects
    \/ ResolveImportsReturns

\* Every await of the resolution settles and the event loop runs what is
\* ready.
ImportSpec == Init /\ [][ImportNext]_vars /\ WF_vars(ImportNext)

-----------------------------------------------------------------------------
(* Vocabulary of the properties *)

Called(i, op) == \E k \in DOMAIN calls[i] : calls[i][k].op = op

\* The response is an object whose field `field` is truthy.
Affirmative(c, field) == c.kind = "object" /\ ToBoolean(c[field])

\* The response is an object whose field `field` is the boolean true.
ExplicitTrue(c, field) == c.kind = "object" /\ c[field] = "true"

\* Before its k-th call, invocation i made an elicitation asking for `field`,
\* and that elicitation was answered.
ElicitedBefore(i, k, field) ==
    \E j \in 1..(k - 1) :
        /\ calls[i][j].op = "elicitation/create"
        /\ calls[i][j].arg.required = field
        /\ calls[i][j].status = "ok"

\* The field each gated tool asks for: `approved` is the sign scope,
\* `confirm` the broadcast scope.
GateField(t) == IF t = RequestPsbtSignature THEN "approved" ELSE "confirm"
SensitiveOp(t) == IF t = RequestPsbtSignature THEN "signPSBT" ELSE "broadcastTransaction"

Declined(i) == confirmed[i].kind # "unset" /\ ~Affirmative(confirmed[i], GateField(tool[i]))

-----------------------------------------------------------------------------
\* C1: in call-contract and deploy-contract-source, finalizeBTCTransaction and
\* signIntention are called only after an elicitation for the sign scope was
\* answered affirmatively in the same invocation.
C1_SigningOnlyAfterSignApproval ==
    \A i \in Invocations :
        tool[i] \in PipelineTools =>
            \A k \in DOMAIN calls[i] :
                calls[i][k].op \in {"finalizeBTCTransaction", "signIntention"} =>
                    /\ ElicitedBefore(i, k, "approved")
                    /\ Affirmative(confirmed[i], "approved")

\* C2: in request-psbt-signature, signPSBT is called only after the
\* elicitation of the same invocation answered with an affirmative `approved`;
\* on an absent response or a non-affirmative `approved` the handler returns
\* the error "Signature request declined by user." and never calls signPSBT.
C2_SignPSBTOnlyIfApproved ==
    \A i \in Invocations :
        tool[i] = RequestPsbtSignature =>
            /\ \A k \in DOMAIN calls[i] :
                   calls[i][k].op = "signPSBT" =>
                       /\ ElicitedBefore(i, k, "approved")
                       /\ Affirmative(confirmed[i], "approved")
            /\ (confirmed[i].kind # "unset" /\ ~Affirmative(confirmed[i], "approved")) =>
                   /\ pc[i] = "done"
                   /\ result[i] = Err("Signature request declined by user.")
                   /\ ~Called(i, "signPSBT")

\* C2 witness: one invocation signed after an approval, another was declined.
C2_Witness ==
    \E i, j \in Invocations :
        /\ tool[i] = RequestPsbtSignature /\ Called(i, "signPSBT")
        /\ tool[j] = RequestPsbtSignature /\ confirmed[j] = NullResponse /\ pc[j] = "done"

\* C3: in request-transaction-broadcast, broadcastTransaction is called only
\* after the elicitation of the same invocation answered with an affirmative
\* `confirm`; otherwise the handler returns the error "Broadcast cancelled by
\* user." and broadcasts nothing.
C3_BroadcastOnlyIfConfirmed ==
    \A i \in Invocations :
        tool[i] = RequestTransactionBroadcast =>
            /\ \A k \in DOMAIN calls[i] :
                   calls[i][k].op = "broadcastTransaction" =>
                       /\ ElicitedBefore(i, k, "confirm")
                       /\ Affirmative(confirmed[i], "confirm")
            /\ (confirmed[i].kind # "unset" /\ ~Affirmative(confirmed[i], "confirm")) =>
                   /\ pc[i] = "done"
                   /\ result[i] = Err("Broadcast cancelled by user.")
                   /\ ~Called(i, "broadcastTransaction")

\* C3 witness: one invocation broadcast after a confirmation, another was
\* answered {confirm: false} and ended.
C3_Witness ==
    \E i, j \in Invocations :
        /\ tool[i] = RequestTransactionBroadcast /\ Called(i, "broadcastTransaction")
        /\ tool[j] = RequestTransactionBroadcast /\ pc[j] = "done"
        /\ confirmed[j].kind = "object" /\ confirmed[j].confirm = "false"

\* C4: every broadcastTransaction call and every eth_sendBTCTransactions
\* request of any tool is preceded, in the same invocation, by an elicitation
\* that was answered affirmatively.
C4_BroadcastOnlyAfterConfirmation ==
    \A i \in Invocations :
        \A k \in DOMAIN calls[i] :
            calls[i][k].op \in {"broadcastTransaction", "eth_sendBTCTransactions"} =>
                \E j \in 1..(k - 1) :
                    /\ calls[i][j].op = "elicitation/create"
                    /\ calls[i][j].status = "ok"
                    /\ Affirmative(confirmed[i], calls[i][j].arg.required)

\* C5: a gated tool invoked without an elicitation channel returns an error
\* result and calls neither signPSBT nor broadcastTransaction.
C5_NoChannelFailsClosed ==
    \A i \in Invocations :
        (tool[i] \in GatedTools /\ ~extra[i]) =>
            /\ pc[i] = "done"
            /\ result[i].isError
            /\ ~Called(i, "signPSBT")
            /\ ~Called(i, "broadcastTransaction")

\* C5 witness: both gated tools were invoked without a channel and ended.
C5_Witness ==
    \E i, j \in Invocations :
        /\ tool[i] = RequestPsbtSignature /\ ~extra[i] /\ pc[i] = "done"
        /\ tool[j] = RequestTransactionBroadcast /\ ~extra[j] /\ pc[j] = "done"

\* C6: a gated tool performs its sensitive call only when the approval field
\* of the response is the boolean true; any other value of the field leads to
\* a decline.
C6_ApprovedOnlyOnBooleanTrue ==
    \A i \in Invocations :
        (tool[i] \in GatedTools /\ Called(i, SensitiveOp(tool[i]))) =>
            ExplicitTrue(confirmed[i], GateField(tool[i]))

\* C7: when the elicitation of a gated tool yields no answer (it is still
\* pending, or it rejected: timeout, cancellation, failure), no signPSBT and
\* no broadcastTransaction call is made, and once it has rejected the
\* invocation has ended with an error result.
C7_NoAnswerIsDeclined ==
    \A i \in Invocations :
        tool[i] \in GatedTools =>
            \A k \in DOMAIN calls[i] :
                (calls[i][k].op = "elicitation/create" /\ calls[i][k].status # "ok") =>
                    /\ ~Called(i, "signPSBT")
                    /\ ~Called(i, "broadcastTransaction")
                    /\ calls[i][k].status = "failed" =>
                           (pc[i] = "done" /\ result[i].isError)

\* C7 witness: the elicitations of both gated tools rejected.
C7_Witness ==
    \E i, j \in Invocations :
        /\ tool[i] = RequestPsbtSignature /\ Called(i, "elicitation/create")
        /\ calls[i][1].status = "failed"
        /\ tool[j] = RequestTransactionBroadcast /\ Called(j, "elicitation/create")
        /\ calls[j][1].status = "failed"

\* The sensitive calls the gated tools made for the scope of `field`, and the
\* invocations of that scope that were answered affirmatively.
SensitiveCalls(field) ==
    UNION { { <<i, k>> : k \in { n \in DOMAIN calls[i] :
                                   calls[i][n].op \in {"signPSBT", "broadcastTransaction"} } } :
            i \in { n \in Invocations : tool[n] \in GatedTools /\ GateField(tool[n]) = field } }

AffirmativeResponses(field) ==
    { i \in Invocations :
        /\ tool[i] \in GatedTools /\ GateField(tool[i]) = field
        /\ Affirmative(confirmed[i], field) }

\* C8: over all invocations of the gated tools, every sensitive call is
\* preceded by an answered elicitation of its own invocation and scope, and
\* per scope the sensitive calls never outnumber the affirmative responses.
C8_GateIsStateless ==
    \A field \in {"approved", "confirm"} :
        /\ Cardinality(SensitiveCalls(field)) <= Cardinality(AffirmativeResponses(field))
        /\ \A ik \in SensitiveCalls(field) :
               /\ ElicitedBefore(ik[1], ik[2], field)
               /\ ik[1] \in AffirmativeResponses(field)
        /\ \A i \in Invocations :
               (tool[i] \in GatedTools /\ GateField(tool[i]) = field) => Len(calls[i]) <= 2

\* C8 witness: an invocation was approved and acted, and an invocation that
\* started after the approval was declined and ended without acting.
C8_Witness ==
    \E i, j \in Invocations :
        /\ i < j
        /\ tool[i] \in GatedTools /\ Called(i, SensitiveOp(tool[i]))
        /\ tool[j] \in GatedTools /\ Declined(j) /\ pc[j] = "done"
        /\ ~Called(j, SensitiveOp(tool[j]))

\* C9: the txId given to signIntention is the id of the transaction
\* finalizeBTCTransaction returned in the same invocation, the raw transaction
\* of the eth_sendBTCTransactions request is that transaction, and the id of
\* the raw transaction is the one the submitted intention was signed against.
C9_IntentionBoundToSubmittedTx ==
    \A i \in Invocations :
        tool[i] \in PipelineTools =>
            \A k \in DOMAIN calls[i] :
                /\ calls[i][k].op = "signIntention" =>
                       /\ btcTx[i] # NotFinalized
                       /\ calls[i][k].arg.txId = btcTx[i].id
                /\ calls[i][k].op = "eth_sendBTCTransactions" =>
                       /\ Len(calls[i][k].arg.serializedTransactions) = 1
                       /\ calls[i][k].arg.serializedTransactions[1].txId = btcTx[i].id
                       /\ calls[i][k].arg.btcTransaction = btcTx[i].hex
                       /\ TxIdOf(calls[i][k].arg.btcTransaction)
                              = calls[i][k].arg.serializedTransactions[1].txId

\* C9 witness: two invocations each submitted their own transaction.
C9_Witness ==
    \E i, j \in Invocations :
        /\ i # j
        /\ Called(i, "eth_sendBTCTransactions") /\ btcTx[i].hasTx
        /\ Called(j, "eth_sendBTCTransactions") /\ btcTx[j].hasTx

PipelineOrder ==
    <<"addTxIntention", "finalizeBTCTransaction", "signIntention",
      "eth_sendBTCTransactions", "waitForTransactionReceipt">>

IsPipelineCall(c) == \E n \in DOMAIN PipelineOrder : PipelineOrder[n] = c.op

PipelineCalls(i) == SelectSeq(calls[i], IsPipelineCall)

\* C10: in call-contract and deploy-contract-source the five steps are called
\* in the order addTxIntention, finalizeBTCTransaction, signIntention,
\* eth_sendBTCTransactions, waitForTransactionReceipt, each only after the
\* previous one succeeded; a failure of a step before the receipt wait is the
\* last step of the invocation, which ends with an error result.
C10_PipelineOrder ==
    \A i \in Invocations :
        tool[i] \in PipelineTools =>
            LET steps == PipelineCalls(i) IN
            /\ Len(steps) <= Len(PipelineOrder)
            /\ \A k \in DOMAIN steps :
                   /\ steps[k].op = PipelineOrder[k]
                   /\ k < Len(steps) => steps[k].status = "ok"
                   /\ (steps[k].status = "failed" /\ k < Len(PipelineOrder)) =>
                          /\ k = Len(steps)
                          /\ pc[i] = "done"
                          /\ result[i].isError

\* C10 witness: one invocation ran all five steps, another failed at
\* signIntention and ended.
C10_Witness ==
    \E i, j \in Invocations :
        /\ tool[i] \in PipelineTools /\ Len(PipelineCalls(i)) = 5 /\ pc[i] = "done"
        /\ tool[j] \in PipelineTools /\ Len(PipelineCalls(j)) = 3
        /\ PipelineCalls(j)[3].status = "failed"

-----------------------------------------------------------------------------
\* The eth_sendBTCTransactions requests of invocation i.
SendCalls(i) == {k \in DOMAIN calls[i] : calls[i][k].op = "eth_sendBTCTransactions"}

\* C11: per invocation of call-contract or deploy-contract-source at most one
\* eth_sendBTCTransactions request is made, it carries both the list of signed
\* intentions and the raw Bitcoin transaction, and it is not made again after
\* it failed nor after the receipt wait timed out.
C11_SubmittedAtMostOnce ==
    \A i \in Invocations :
        tool[i] \in PipelineTools =>
            /\ Cardinality(SendCalls(i)) <= 1
            /\ \A k \in SendCalls(i) :
                   /\ DOMAIN calls[i][k].arg = {"serializedTransactions", "btcTransaction"}
                   /\ calls[i][k].arg.serializedTransactions = <<signedEvmTx[i]>>
                   /\ calls[i][k].arg.btcTransaction = BtcTxHexOf(btcTx[i])
                   /\ \A m \in DOMAIN calls[i] :
                          m > k => calls[i][m].op \in {"waitForTransactionReceipt", "fetch"}

\* C11 witness: one invocation ended after its only request failed, another
\* ended after its receipt wait timed out, with one request made.
C11_Witness ==
    \E i, j \in Invocations :
        /\ tool[i] \in PipelineTools /\ pc[i] = "done"
        /\ \E k \in SendCalls(i) : calls[i][k].status = "failed"
        /\ tool[j] \in PipelineTools /\ pc[j] = "done"
        /\ Cardinality(SendCalls(j)) = 1
        /\ \E k \in DOMAIN calls[j] :
               calls[j][k].op = "waitForTransactionReceipt" /\ calls[j][k].status = "failed"

\* C12: when eth_sendBTCTransactions fails, the invocation ends with the error
\* result of the handler's catch block, which carries no transaction ids, and
\* the failed request is its last call: no receipt wait, no verification
\* request.
C12_RejectedSubmissionIsFailure ==
    \A i \in Invocations :
        tool[i] \in PipelineTools =>
            \A k \in SendCalls(i) :
                calls[i][k].status = "failed" =>
                    /\ pc[i] = "done"
                    /\ result[i].isError
                    /\ DOMAIN result[i] = {"isError", "text"}
                    /\ result[i].text \in {"Error calling contract: ",
                                           "Error in deploy-contract-source: "}
                    /\ k = Len(calls[i])
                    /\ ~Called(i, "waitForTransactionReceipt")
                    /\ ~Called(i, "fetch")

\* C12 witness: a call-contract and a deploy-contract-source invocation whose
\* submission was rejected.
C12_Witness ==
    \E i, j \in Invocations :
        /\ tool[i] = CallContract
        /\ \E k \in SendCalls(i) : calls[i][k].status = "failed"
        /\ tool[j] = DeployContractSource
        /\ \E k \in SendCalls(j) : calls[j][k].status = "failed"

\* C13: when the submission was accepted and the receipt reports a reverted
\* EVM transaction, the result is not the success text "executed
\* successfully" / "deployed successfully".
C13_RevertIsNotSuccess ==
    \A i \in Invocations :
        (tool[i] \in PipelineTools /\ receipt[i].status = "reverted" /\ pc[i] = "done") =>
            result[i].text \notin {"Contract call executed successfully!",
                                   "Contract deployed successfully!"}

C15_AddressFromNonceReadBeforeSubmission ==
    \A i \in Invocations :
        (tool[i] = DeployContractSource /\ pc[i] = "done" /\ ~result[i].isError) =>
            \E k \in DOMAIN calls[i] :
                /\ calls[i][k].op = "getTransactionCount"
                /\ calls[i][k].status = "ok"
                /\ calls[i][k].arg.address = EvmAddress
                /\ \A m \in SendCalls(i) : k < m
                /\ result[i].contractAddress = GetContractAddress(EvmAddress, calls[i][k].ret)

\* C15 witness: two deployments reported their address, one with a receipt,
\* one after the wait timed out, and the count had moved on since the read.
C15_Witness ==
    \E i, j \in Invocations :
        /\ tool[i] = DeployContractSource /\ pc[i] = "done" /\ ~result[i].isError
        /\ receipt[i] # NoReceipt
        /\ tool[j] = DeployContractSource /\ pc[j] = "done" /\ ~result[j].isError
        /\ receipt[j] = NoReceipt
        /\ result[i].contractAddress # GetContractAddress(EvmAddress, TransactionCount)

\* The count invocation i read.
NonceRead(i) ==
    LET k == CHOOSE k \in DOMAIN calls[i] :
                 calls[i][k].op = "getTransactionCount" /\ calls[i][k].status = "ok"
    IN calls[i][k].ret

HasReadNonce(i) ==
    \E k \in DOMAIN calls[i] : calls[i][k].op = "getTransactionCount" /\ calls[i][k].status = "ok"

\* The address the network created the contract of invocation i at.
DeployedAt(i) == GetContractAddress(EvmAddress, ConsumedNonce(i))

SameUtxoSelected ==
    \E i, j \in Invocations :
        /\ i # j
        /\ btcTx[i].hasTx /\ btcTx[j].hasTx
        /\ btcTx[i].utxo = btcTx[j].utxo

\* C18: once coinSelect has run, estimate-btc-transfer-fee returns the
\* insufficient-funds error exactly when the selection has no inputs or no
\* outputs; otherwise it returns a non-error result with the fee of the
\* selection, the fee rate used (the argument, or the hourFee of the oracle
\* when none was given) and the numbers of inputs and outputs selected.
C18_InsufficientFundsIffNoSelection ==
    \A i \in Invocations :
        (/\ tool[i] = EstimateBtcTransferFee
         /\ pc[i] = "done"
         /\ \E k \in DOMAIN calls[i] : calls[i][k].op = "getUTXOs" /\ calls[i][k].status = "ok") =>
            LET none == selected[i].inputs = Undefined \/ selected[i].outputs = Undefined
                insufficient ==
                    result[i] = Err("Error: Insufficient funds or no suitable UTXOs found for this transfer.")
                rateUsed ==
                    IF args[i].feeRate # 0 THEN args[i].feeRate
                    ELSE calls[i][1].ret
            IN
            /\ insufficient <=> none
            /\ ~none =>
                   /\ ~result[i].isError
                   /\ result[i].fee = selected[i].fee
                   /\ result[i].feeRate = rateUsed
                   /\ result[i].inputs = Len(selected[i].inputs.items)
                   /\ result[i].outputs = Len(selected[i].outputs.items)

\* C18 witness: one estimate ended with the insufficient-funds error, another
\* with a fee at the rate of the oracle.
C18_Witness ==
    \E i, j \in Invocations :
        /\ tool[i] = EstimateBtcTransferFee /\ pc[i] = "done"
        /\ result[i] = Err("Error: Insufficient funds or no suitable UTXOs found for this transfer.")
        /\ tool[j] = EstimateBtcTransferFee /\ pc[j] = "done" /\ ~result[j].isError
        /\ args[j].feeRate = 0
        /\ result[j].inputs = 2

\* C19: every invocation that ended returned a result, a success payload or
\* an error result; none ended by an exception leaving the handler.
C19_EveryInvocationReturnsAResult ==
    \A i \in Invocations :
        pc[i] \in {"done", "rejected"} =>
            /\ pc[i] = "done"
            /\ result[i] # NoResult

\* C21: coinSelect runs only with a positive fee rate and a non-empty list of
\* targets: an estimate whose selection ran had a positive currentFeeRate and
\* at least one recipient.
C21_SelectorInputsValid ==
    \A i \in Invocations :
        (/\ tool[i] = EstimateBtcTransferFee
         /\ \E k \in DOMAIN calls[i] : calls[i][k].op = "getUTXOs" /\ calls[i][k].status = "ok") =>
            /\ currentFeeRate[i] > 0
            /\ Len(args[i].recipients) > 0

-----------------------------------------------------------------------------
(* The start-up of the process *)

\* The name, whatever its case, contains "testnet" or "regtest".
IsTestNetworkName(name) ==
    \E k \in 1..Len(name) :
        \E word \in {Testnet, Regtest} :
            /\ k + Len(word) - 1 <= Len(name)
            /\ \A n \in 1..Len(word) : LowerCaseOf(name[k + n - 1]) = word[n]

\* A wrapper exists only over a configuration with a wallet connection and a
\* network named testnet or regtest, and nothing is registered and no
\* transport is connected without a wrapper.
WrapperOnlyOnTestNetworks ==
    /\ midlWrapper # Undefined =>
           /\ midlWrapper.state.connection # Undefined
           /\ midlWrapper.state.network # Undefined
           /\ IsTestNetworkName(midlWrapper.state.network.network)
    /\ (registered \/ transport = "connected") => midlWrapper # Undefined

\* The process registered nothing, connected no transport and, once main has
\* looked at its configuration, has exited with code 1.
FailsBeforeTransport ==
    /\ midlWrapper = Undefined
    /\ ~registered
    /\ transport = "none"
    /\ main \notin {"connect", "fetch", "created"} => process = "exit(1)"

\* C22 (as the code has it): a wrapper exists only over a configuration with
\* a wallet connection and a testnet or regtest network, so nothing is
\* registered or served for a mainnet configuration; a process started with
\* MIDL_NETWORK=mainnet and a mnemonic or an account address fails before the
\* transport is connected.
C22_WrapperOnlyOnTestNetworks ==
    /\ WrapperOnlyOnTestNetworks
    /\ (/\ main # "start"
        /\ env.MIDL_NETWORK = IsSet(Mainnet)
        /\ Truthy(env.MIDL_MNEMONIC) \/ Truthy(env.MIDL_ACCOUNT_ADDRESS)) =>
           FailsBeforeTransport

\* C22 as stated: every process started with MIDL_NETWORK=mainnet fails
\* before the transport is connected.
C22_AsStated ==
    /\ WrapperOnlyOnTestNetworks
    /\ (main # "start" /\ env.MIDL_NETWORK = IsSet(Mainnet)) => FailsBeforeTransport

\* A process started with MIDL_NETWORK=mainnet and an account address has
\* exited with code 1 at the wrapper.
C22_Witness ==
    /\ env.MIDL_NETWORK = IsSet(Mainnet)
    /\ midlConfig # Undefined
    /\ midlConfig # Null
    /\ midlConfig.mode = "address"
    /\ process = "exit(1)"

\* C25 (as the code has it): the mode follows from the environment alone.  A
\* non-empty MIDL_MNEMONIC gives the mnemonic mode whatever the address is;
\* without one, a non-empty MIDL_ACCOUNT_ADDRESS gives the address mode, with
\* a ServerConnector and the ordinals and payment accounts of that address;
\* with neither, main wraps the mock configuration and goes on to connect.
C25_ModeFromEnvironment ==
    main \in {"server.connect", "returned"} =>
        /\ Truthy(env.MIDL_MNEMONIC) => midlWrapper.mode = "mnemonic"
        /\ (~Truthy(env.MIDL_MNEMONIC) /\ Truthy(env.MIDL_ACCOUNT_ADDRESS)) =>
               /\ midlWrapper.mode = "address"
               /\ midlWrapper.state.connection.id = "server-connector"
               /\ midlWrapper.state.connection.address = env.MIDL_ACCOUNT_ADDRESS.value
               /\ Len(midlWrapper.state.accounts) = 2
               /\ \A k \in 1..2 :
                      midlWrapper.state.accounts[k].address = env.MIDL_ACCOUNT_ADDRESS.value
               /\ {midlWrapper.state.accounts[k].purpose : k \in 1..2} = {"ordinals", "payment"}
        /\ (~Truthy(env.MIDL_MNEMONIC) /\ ~Truthy(env.MIDL_ACCOUNT_ADDRESS)) =>
               /\ midlWrapper = MockConfig
               /\ process = "running"

\* The server runs in the mnemonic mode although an address is set too.
C25_Witness ==
    /\ transport = "connected"
    /\ Truthy(env.MIDL_MNEMONIC)
    /\ Truthy(env.MIDL_ACCOUNT_ADDRESS)
    /\ midlWrapper.mode = "mnemonic"

\* C25 as stated: MIDL_MNEMONIC set, to whatever value, gives the mnemonic
\* mode.
C25_AsStated ==
    (main \in {"server.connect", "returned"} /\ env.MIDL_MNEMONIC.set) =>
        midlWrapper.mode = "mnemonic"

\* C24: a ServerConnector holds no key material, every signPSBT it served
\* returned exactly the PSBT it was given, and every signMessage failed.
C24_ServerConnectorNeverSigns ==
    /\ \A k \in DOMAIN connectorCalls :
           /\ connectorCalls[k].op = "signPSBT" =>
                  /\ connectorCalls[k].status = "resolved"
                  /\ connectorCalls[k].value.psbt = connectorCalls[k].params.psbt
                  /\ connectorCalls[k].value.psbt \in Psbts
           /\ connectorCalls[k].op = "signMessage" => connectorCalls[k].status = "rejected"
    /\ (midlWrapper # Undefined /\ midlWrapper.mode = "address") =>
           DOMAIN midlWrapper.state.connection = {"id", "address", "publicKey"}

\* The connector was asked to sign two inputs of a PSBT and to sign a message.
C24_Witness ==
    /\ \E k \in DOMAIN connectorCalls :
           /\ connectorCalls[k].op = "signPSBT"
           /\ connectorCalls[k].params.signInputs = {0, 1}
    /\ \E k \in DOMAIN connectorCalls : connectorCalls[k].op = "signMessage"

-----------------------------------------------------------------------------
(* The anchoring pipeline without a Bitcoin transaction *)

\* C27: signIntention is never called with an empty txId and
\* eth_sendBTCTransactions is never issued with an empty raw Bitcoin
\* transaction.
C27_NoEmptyTransactionDownstream ==
    \A i \in Invocations :
        \A k \in DOMAIN calls[i] :
            /\ calls[i][k].op = "signIntention" => calls[i][k].arg.txId # EmptyString
            /\ calls[i][k].op = "eth_sendBTCTransactions" =>
                   calls[i][k].arg.btcTransaction # EmptyString

-----------------------------------------------------------------------------
(* Compilation in deploy-contract-source *)

\* The steps that touch the chain or the explorer.
ChainAffecting ==
    {"getTransactionCount", "addTxIntention", "finalizeBTCTransaction", "signIntention",
     "eth_sendBTCTransactions", "fetch"}

\* The compiler outputs of invocation i, as logged.
CompilerOutputs(i) ==
    {calls[i][k].ret : k \in {n \in DOMAIN calls[i] : calls[i][n].op = "solc.compile"}}

\* C28: when the compiler output holds a diagnostic of severity "error", or
\* lacks the requested contract, the deployment returns an error result and
\* has made no chain-affecting call; with diagnostics of severity "warning"
\* alone and the contract present it goes on to read the nonce.
C28_CompileErrorsStopTheDeployment ==
    \A i \in Invocations :
        \A output \in CompilerOutputs(i) :
            IF \/ \E k \in DOMAIN output.errors : output.errors[k] = "error"
               \/ ContractName \notin output.contracts
            THEN /\ pc[i] = "done"
                 /\ result[i].isError
                 /\ \A k \in DOMAIN calls[i] : calls[i][k].op \notin ChainAffecting
            ELSE Called(i, "getTransactionCount")

\* A deployment whose compiler output held a warning and no error was
\* submitted.
C28_Witness ==
    \E i \in Invocations :
        /\ \E output \in CompilerOutputs(i) :
               /\ Len(output.errors) > 0
               /\ \A k \in DOMAIN output.errors : output.errors[k] = "warning"
        /\ Called(i, "eth_sendBTCTransactions")

-----------------------------------------------------------------------------
(* The inputs request-psbt-signature asks to sign *)

\* C29: every signPSBT call of request-psbt-signature asks for signatures on
\* all the inputs of the PSBT that the signing account owns.
C29_AllOwnedInputsSigned ==
    \A i \in Invocations :
        tool[i] = RequestPsbtSignature =>
            \A k \in DOMAIN calls[i] :
                calls[i][k].op = "signPSBT" =>
                    calls[i][k].arg.signInputs = OwnedInputs(calls[i][k].arg.psbt)

-----------------------------------------------------------------------------
(* The bitcoin-balance resource *)

\* The last path segment: what follows the last "/" of the pathname.
LastSegment(pathname) ==
    LET slashes == {k \in DOMAIN pathname : pathname[k] = Slash}
        last == IF slashes = {} THEN 0 ELSE CHOOSE k \in slashes : \A j \in slashes : j <= k
    IN SubSeq(pathname, last + 1, Len(pathname))

IsDigit(c) == \E d \in 0..9 : DigitChars[d + 1] = c
DigitValue(c) == CHOOSE d \in 0..9 : DigitChars[d + 1] = c

\* The number a string of digits denotes.
RECURSIVE ValueOf(_)
ValueOf(s) ==
    IF s = <<>> THEN 0
    ELSE 10 * ValueOf(SubSeq(s, 1, Len(s) - 1)) + DigitValue(s[Len(s)])

\* The string is the amount in BTC with exactly eight decimals.
IsBtcOf(btc, satoshis) ==
    /\ Len(btc) >= 10
    /\ btc[Len(btc) - 8] = "."
    /\ \A k \in DOMAIN btc : k # Len(btc) - 8 => IsDigit(btc[k])
    /\ ValueOf(SubSeq(btc, 1, Len(btc) - 9)) * 100000000
           + ValueOf(SubSeq(btc, Len(btc) - 7, Len(btc))) = satoshis

\* The text is "Balance for <address>: <btc> BTC (<satoshis> sats)".
IsBalanceText(text, address, satoshis) ==
    LET a == Len(address) IN
    /\ Len(text) > a + 4
    /\ text[1] = "Balance for "
    /\ SubSeq(text, 2, a + 1) = address
    /\ text[a + 2] = ": "
    /\ text[Len(text)] = " sats)"
    /\ \E p \in (a + 3)..(Len(text) - 1) :
           /\ text[p] = " BTC ("
           /\ IsBtcOf(SubSeq(text, a + 3, p - 1), satoshis)
           /\ ValueOf(SelectSeq(SubSeq(text, p + 1, Len(text) - 1), IsDigit)) = satoshis
           /\ satoshis = 1000000 =>
                  SubSeq(text, a + 3, p - 1) = <<"0", ".", "0", "1", "0", "0", "0", "0", "0", "0">>

\* C26: a read of midl://balance/{address} asks the provider once, for the
\* last path segment of its URI, and returns one text content that names
\* that address and the balance in BTC with eight decimals and in satoshis;
\* with an empty last segment it fails with "Missing address" and asks the
\* provider nothing.
C26_BalanceOfTheLastSegment ==
    \A i \in Invocations :
        LET r == reads[i]
            segment == LastSegment(r.uri.pathname)
        IN r.pc # "idle" =>
            IF segment = EmptyString
            THEN r.pc = "rejected" /\ r.error = "Missing address" /\ r.calls = <<>>
            ELSE /\ Len(r.calls) = 1
                 /\ r.calls[1].op = "getBalance"
                 /\ r.calls[1].arg = segment
                 /\ r.pc = "done" =>
                        /\ Len(r.contents) = 1
                        /\ r.contents[1].uri = r.uri.href
                        /\ IsBalanceText(r.contents[1].text, segment, r.calls[1].ret)

\* A read of a URI with two path segments returned a balance of more than
\* one BTC, and a read of a URI that ends in "/" failed.
C26_Witness ==
    /\ \E i \in Invocations :
           /\ reads[i].pc = "done"
           /\ Len(reads[i].uri.pathname) = 4
           /\ reads[i].calls[1].ret = 1234567890
    /\ \E i \in Invocations :
           /\ reads[i].pc = "rejected"
           /\ Len(reads[i].uri.pathname) = 3

-----------------------------------------------------------------------------
(* The import resolution *)

\* No fetch asked for a path `sources` held, and every fetch asked for a
\* path that starts with "@openzeppelin/".
FetchedOnlyNewLibraryPaths ==
    \A k \in DOMAIN fetched :
        /\ ~fetched[k].present
        /\ fetched[k].path[1] = "@openzeppelin/"

\* No path was descended into twice.
DescendedOnce ==
    \A k, n \in DOMAIN descended : descended[k] = descended[n] => k = n

\* The resolution was started and no call of resolveImports is active.
ResolutionOver == resolver # "none" /\ stack = <<>>

\* C30: the import resolution terminates, whatever the files import (each
\* other, themselves, Contract.sol); no path that `sources` holds is fetched
\* or descended into again, and only paths starting with "@openzeppelin/"
\* are fetched.
C30_ImportResolutionTerminates ==
    /\ [](FetchedOnlyNewLibraryPaths /\ DescendedOnce)
    /\ <>ResolutionOver

\* The resolution is over for two library files that import each other, one
\* of which imports itself too; both were fetched.
C30_Witness ==
    /\ ResolutionOver
    /\ \E a, b \in OpenZeppelinPaths :
           /\ a # b
           /\ files[a] = OkWith(<<a, b>>)
           /\ files[b] = OkWith(<<a>>)
    /\ Len(descended) = 3

-----------------------------------------------------------------------------
(* Decoding what prepare-btc-transfer produced *)

\* The PSBT has no finalized input.
IsUnsigned(psbt) == \A k \in DOMAIN psbt.inputs : ~psbt.inputs[k].finalized

\* The decoded data lists the inputs and the outputs of the PSBT in their
\* order, by index from 0, with their outpoints, addresses and values.
ListsInOrder(data, psbt) ==
    /\ Len(data.inputs) = Len(psbt.inputs)
    /\ \A k \in DOMAIN psbt.inputs :
           /\ data.inputs[k].index = k - 1
           /\ data.inputs[k].hash = psbt.inputs[k].txid
           /\ data.inputs[k].vout = psbt.inputs[k].vout
    /\ Len(data.outputs) = Len(psbt.outputs)
    /\ \A k \in DOMAIN psbt.outputs :
           /\ data.outputs[k].index = k - 1
           /\ data.outputs[k].address = psbt.outputs[k].address
           /\ data.outputs[k].value = psbt.outputs[k].value

\* C23: decode-psbt, handed an unsigned PSBT that prepare-btc-transfer
\* produced, returns its decoded inputs and outputs, in the order and with
\* the outpoints, addresses and values of the PSBT.
C23_UnsignedPsbtDecodes ==
    \A i \in Invocations :
        (/\ tool[i] = DecodePsbt
         /\ calls[i][1].arg \in PreparedPsbts
         /\ IsUnsigned(calls[i][1].arg.psbt)) =>
            /\ ~result[i].isError
            /\ ListsInOrder(result[i].data, calls[i][1].arg.psbt)

=============================================================================
